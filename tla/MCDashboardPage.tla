-------------------------- MODULE MCDashboardPage ---------------------------
(* The instance of DashboardPage for TLC.                                  *)
EXTENDS DashboardPage

Wide(format, cells) == [format |-> format, w |-> 3, h |-> 1, pitch |-> 8, cells |-> cells]
Square(cells) == [format |-> "xrgb8888", w |-> 2, h |-> 2, pitch |-> 8, cells |-> cells]

Red   == 31 * 1024
Blue  == 31
Dim   == 9 * 1024 + 17 * 32 + 3

\* Three columns and a cell of padding, in two formats, with changes in the
\* whole tile, in the cut one and in the padding; a row of two of 32 bits and
\* two by two that begin like it; a pitch that is too short.
MCDrawings ==
  { Wide("xrgb1555", <<Red, Blue, Dim, 0>>),
    Wide("xrgb1555", <<Red, Blue, Blue, 5>>),
    Wide("rgb565", <<Blue, Dim, Blue, 0>>),
    Square(<<255 * 65536, 255, 4660, 255>>),
    [Square(<<255 * 65536, 255>>) EXCEPT !.h = 1],
    [Square(<<0, 0, 0, 0>>) EXCEPT !.pitch = 4] }
=============================================================================
