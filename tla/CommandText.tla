----------------------------- MODULE CommandText ----------------------------
(***************************************************************************)
(* What a request to a session route becomes on its way to the emulator's  *)
(* memory and back: the checks of its arguments (crates/gateway), the      *)
(* command they are parsed into and the text of the response               *)
(* (crates/mgba/src/ipc_transport.rs), and the range of system RAM an      *)
(* address stands for (src/bin/worker/core.rs).  An argument is a form and *)
(* the number, or the button, it spells.  Types are Byte-ary: a byte has   *)
(* Byte values, u16 two bytes, u32 four.                                   *)
(***************************************************************************)
EXTENDS Integers, Sequences, FiniteSets

CONSTANTS Byte,      \* 256
          RamBase,   \* GBA_SYSTEM_RAM_BASE
          RamSize,   \* retro_get_memory_size
          None

ASSUME RamAssumption ==
  /\ Byte \in Nat \ {0, 1}
  /\ RamSize \in Nat /\ RamBase \in Nat /\ RamSize < RamBase

RamBytes == 0 .. RamSize - 1

-----------------------------------------------------------------------------
(* The gateway: format_message, validate_command                            *)

\* "other" is any other text, one with a comma or no text at all included.
Forms == {"decimal", "hex", "HEX", "button", "other"}

\* hold gives its command a duration if the query has none.
Arguments(q) ==
  IF q.route = "hold" /\ Len(q.args) = 1
  THEN <<q.args[1], [form |-> "decimal", n |-> 15]>> ELSE q.args

IsDecimal(t) == t.form = "decimal"
IsNumeric(t) == t.form \in {"decimal", "hex"}

\* X and Y, which the worker knows, are not among them.
IsValidButton(t) ==
  /\ t.form = "button"
  /\ t.n \in {"A", "B", "L", "R", "Start", "Select", "Up", "Down", "Left", "Right"}

\* Mutation: a duration may be written like an address.
NumericDuration(t) == IsNumeric(t)

IsDuration(t) == IsDecimal(t)

ReadRoutes  == {"read8", "read16", "readrange"}
WriteRoutes == {"write8", "write16", "write32"}
SlotRoutes  == {"savestateslot", "loadstateslot"}
InputRoutes == {"tap", "hold"}
ViewRoutes  == {"screenshot", "logs"}

\* The fields of the route's query; a request without them is not routed.
ArgumentCounts(route) ==
  CASE route \in {"read8", "read16", "tap"} \cup SlotRoutes   -> {1}
    [] route \in {"readrange"} \cup WriteRoutes              -> {2}
    [] route = "hold"                                        -> {1, 2}
    [] route \in {"reset", "currentframe"} \cup ViewRoutes   -> {0}

IsRequest(q) ==
  \E n \in ArgumentCounts(q.route) :
    /\ DOMAIN q.args = 1 .. n
    /\ \A i \in 1 .. n : /\ q.args[i].form \in Forms
                         /\ IsNumeric(q.args[i]) => q.args[i].n \in Nat

ValidCommand(q) ==
  LET a == Arguments(q) IN
  \/ q.route \in {"read8", "read16"} /\ IsNumeric(a[1])
  \/ q.route = "readrange" /\ IsNumeric(a[1]) /\ IsDecimal(a[2])
  \/ q.route \in WriteRoutes /\ IsNumeric(a[1]) /\ IsNumeric(a[2])
  \/ q.route \in SlotRoutes /\ IsDecimal(a[1])
  \/ q.route \in {"reset", "currentframe"}
  \/ q.route = "tap" /\ IsValidButton(a[1])
  \/ q.route = "hold" /\ IsValidButton(a[1]) /\ IsDuration(a[2])

-----------------------------------------------------------------------------
(* The transport: parse_message_to_command                                  *)

\* parse::<u8>, parse::<u32>, from_str_radix: the value, if the type holds it.
Holds(t, bytes) == t.n < Byte^bytes

\* Mutation: to_be_bytes.
BigEndian(v, bytes) == [i \in 1 .. bytes |-> (v \div Byte^(bytes - i)) % Byte]

\* `as u8`, `as u16` and to_le_bytes: the high bytes of a value are cut off.
LittleEndian(v, bytes) == [i \in 1 .. bytes |-> (v \div Byte^(i - 1)) % Byte]

Width(q) ==
  CASE q.route \in {"read8", "write8"}   -> 1
    [] q.route \in {"read16", "write16"} -> 2
    [] q.route = "write32"               -> 4
    [] q.route = "readrange"             -> q.args[2].n

\* A duration that is no decimal number of its type is no error.
HoldFrames(t) == IF IsDecimal(t) /\ Holds(t, 4) THEN t.n ELSE 15

Refused == [op |-> "unknown command"]

Parse(q) ==
  LET a == Arguments(q) IN
  CASE q.route \in ReadRoutes ->
         IF Holds(a[1], 4) /\ Width(q) < Byte^4
         THEN [op |-> "read", at |-> a[1].n, size |-> Width(q)] ELSE Refused
    [] q.route \in WriteRoutes ->
         IF Holds(a[1], 4) /\ Holds(a[2], 4)
         THEN [op |-> "write", at |-> a[1].n, data |-> LittleEndian(a[2].n, Width(q))]
         ELSE Refused
    [] q.route \in SlotRoutes ->
         IF Holds(a[1], 1)
         THEN [op |-> IF q.route = "savestateslot" THEN "save" ELSE "load", slot |-> a[1].n]
         ELSE Refused
    [] q.route = "reset"        -> [op |-> "reset"]
    [] q.route = "currentframe" -> [op |-> "frame"]
    [] q.route = "tap"          -> [op |-> "press", button |-> a[1].n, frames |-> 3]
    [] q.route = "hold"         -> [op |-> "press", button |-> a[1].n,
                                    frames |-> HoldFrames(a[2])]

\* response_to_string.  An error of the worker is a response like any other.
Text(response) ==
  CASE response.kind = "data" ->
         IF Len(response.data) = 1 THEN <<"decimal", response.data[1]>>
         ELSE IF Len(response.data) = 2
              THEN <<"decimal", response.data[1] + Byte * response.data[2]>>
              ELSE <<"hex", response.data>>
    [] response.kind = "error" -> <<"error">>
    [] response.kind = "frame" -> <<"frame">>
    [] response.kind = "ok"    -> <<"ok">>

-----------------------------------------------------------------------------
(* The worker: handle_core_command                                          *)

\* system_ram_range
RamStart(address) == IF address >= RamBase THEN address - RamBase ELSE address

InRam(address, size) == RamStart(address) + size <= RamSize

ReadMemory(ram, address, size) ==
  IF InRam(address, size)
  THEN [kind |-> "data", data |-> [i \in 1 .. size |-> ram[RamStart(address) + i - 1]]]
  ELSE [kind |-> "error"]

WriteMemory(ram, address, data) ==
  [b \in RamBytes |->
     IF InRam(address, Len(data)) /\ b - RamStart(address) + 1 \in DOMAIN data
     THEN data[b - RamStart(address) + 1] ELSE ram[b]]

-----------------------------------------------------------------------------
(* The reference: which bytes a request is about, from its text alone       *)

\* Byte b of the RAM has two names, b and RamBase + b.
Names(b) == {b, RamBase + b}

\* The offset at which the request covers b, if it does.
Offsets(q, b) == {i \in 0 .. Width(q) - 1 : q.args[1].n + i \in Names(b)}

Covered(q) == {b \in RamBytes : Offsets(q, b) # {}}

\* Nothing is read or written unless all of it is there.
WhollyInRam(q) == Cardinality(Covered(q)) = Width(q)

\* The button and the number of frames a request asks for; a tap's 50 ms are
\* three of them.
AskedPress(q) ==
  <<q.args[1].n, IF q.route = "tap" THEN 3 ELSE Arguments(q)[2].n>>

\* A duration that u32 does not hold.
TooLong(q) == q.route = "hold" /\ ~Holds(Arguments(q)[2], 4)
=============================================================================
