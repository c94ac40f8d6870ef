---------------------------- MODULE PictureCodec ----------------------------
(***************************************************************************)
(* What happens to the pixels of a picture: the conversion of the core's   *)
(* pixel formats in the worker (src/bin/worker.rs), the keyframes and tile *)
(* deltas of crates/streaming/src/protocol.rs and what the dashboard does  *)
(* with them (dashboard/src/App.tsx).  Compression is left out.            *)
(***************************************************************************)
EXTENDS Integers, FiniteSets

CONSTANTS Tile,       \* config.tile_size
          NoPicture   \* a refused conversion, and no previous frame

ASSUME TileAssumption == Tile \in Nat \ {0}

-----------------------------------------------------------------------------
(* The worker: pixels of the core to bytes B, G, R, X                       *)

Formats == {"xrgb1555", "rgb565", "xrgb8888"}

BytesPerPixel(format) == IF format = "xrgb8888" THEN 4 ELSE 2

Bits(v, first, n) == (v \div 2^first) % 2^n

\* Mutation: the low bits stay 0.
Shift5(c) == c * 8

\* (value << 3) | (value >> 2), and the same for six bits
Expand5(c) == c * 8 + c \div 4
Expand6(c) == c * 4 + c \div 16

Pixel(format, v) ==
  CASE format = "xrgb1555" ->
         <<Expand5(Bits(v, 0, 5)), Expand5(Bits(v, 5, 5)), Expand5(Bits(v, 10, 5)), 255>>
    [] format = "rgb565" ->
         <<Expand5(Bits(v, 0, 5)), Expand6(Bits(v, 5, 6)), Expand5(Bits(v, 11, 5)), 255>>
    [] format = "xrgb8888" ->
         <<Bits(v, 0, 8), Bits(v, 8, 8), Bits(v, 16, 8), Bits(v, 24, 7)>>

\* The pixels of an image of w columns, as a coordinate's place in the data.
Coordinates(w, h) == (0 .. w - 1) \X (0 .. h - 1)
Place(c, w) == c[2] * w + c[1]

\* What the core draws: format, size, pitch in bytes, and its memory, one cell
\* for each pixel and for each pixel's worth of padding.
Cell(src, c) == src.cells[c[2] * (src.pitch \div BytesPerPixel(src.format)) + c[1] + 1]

\* convert_video_frame_to_xrgb8888: the rows without their padding.
Convert(src) ==
  IF src.pitch < src.w * BytesPerPixel(src.format) THEN NoPicture
  ELSE [w |-> src.w, h |-> src.h,
        data |-> [i \in 0 .. src.w * src.h - 1 |->
                    Pixel(src.format, Cell(src, <<i % src.w, i \div src.w>>))]]

-----------------------------------------------------------------------------
(* The gateway: encode_keyframe, encode_delta                               *)

Rgba(bgrx) == <<bgrx[3], bgrx[2], bgrx[1], 255>>

Keyframe(cur) ==
  [kind |-> "keyframe", w |-> cur.w, h |-> cur.h,
   rgba |-> [c \in Coordinates(cur.w, cur.h) |-> Rgba(cur.data[Place(c, cur.w)])]]

\* The tiles, those at the right and the lower edge cut off.
TilesOf(cur) ==
  {{c \in Coordinates(cur.w, cur.h) : c[1] \div Tile = t[1] /\ c[2] \div Tile = t[2]} :
     t \in Coordinates((cur.w + Tile - 1) \div Tile, (cur.h + Tile - 1) \div Tile)}

\* Both pictures are read at the place the new one's pitch gives.
TileChanged(tile, old, cur) ==
  \E c \in tile : /\ Place(c, cur.w) \in DOMAIN old.data
                  /\ old.data[Place(c, cur.w)] # cur.data[Place(c, cur.w)]

\* A comparison that finds no difference before the end of the smaller, old
\* picture runs over it: the slice panics.
Overruns(old, cur) ==
  \E tile \in TilesOf(cur) : /\ ~TileChanged(tile, old, cur)
                             /\ \E c \in tile : Place(c, cur.w) \notin DOMAIN old.data

Delta(old, cur) ==
  [kind |-> "delta", w |-> cur.w, h |-> cur.h,
   rgba |-> [c \in UNION {t \in TilesOf(cur) : TileChanged(t, old, cur)} |->
               Rgba(cur.data[Place(c, cur.w)])]]

-----------------------------------------------------------------------------
(* The dashboard: a canvas after renderKeyframe, renderDelta                *)

PaintKeyframe(msg, canvas) == [w |-> msg.w, h |-> msg.h, rgba |-> msg.rgba]

\* putImageData clips; a delta never changes the size.
PaintDelta(msg, canvas) ==
  [canvas EXCEPT !.rgba = [c \in DOMAIN @ |-> IF c \in DOMAIN msg.rgba THEN msg.rgba[c] ELSE @[c]]]

Paint(msg, canvas) ==
  IF msg.kind = "keyframe" THEN PaintKeyframe(msg, canvas) ELSE PaintDelta(msg, canvas)

-----------------------------------------------------------------------------
(* The reference: the colour a core's pixel stands for                      *)

\* Where red, green and blue are in a format, and the largest value of each.
Channels(format) ==
  CASE format = "xrgb1555" -> <<<<10, 5>>, <<5, 5>>, <<0, 5>>>>
    [] format = "rgb565"   -> <<<<11, 5>>, <<5, 6>>, <<0, 5>>>>
    [] format = "xrgb8888" -> <<<<16, 8>>, <<8, 8>>, <<0, 8>>>>

\* Scaled to 8 bits, less than one step away.
SameColour(rgba, format, v) ==
  \A k \in 1 .. 3 :
    LET n == Channels(format)[k][2]
        c == Bits(v, Channels(format)[k][1], n)
        d == rgba[k] * (2^n - 1) - c * 255
    IN -(2^n - 1) < d /\ d < 2^n - 1

Shows(canvas, src) ==
  /\ canvas.w = src.w /\ canvas.h = src.h
  /\ \A c \in Coordinates(src.w, src.h) : SameColour(canvas.rgba[c], src.format, Cell(src, c))
=============================================================================
