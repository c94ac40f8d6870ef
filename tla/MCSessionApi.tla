---------------------------- MODULE MCSessionApi ----------------------------
(* The instance of SessionApi for TLC: types of four values to a byte, so   *)
(* that u16 ends at 16 and u32 at 256, and four bytes of RAM at address 16. *)
EXTENDS SessionApi

Dec(n) == [form |-> "decimal", n |-> n]
Hex(n) == [form |-> "hex", n |-> n]
Name(b) == [form |-> "button", n |-> b]

Ask(route, args, token) ==
  [route |-> route, args |-> args, session |-> "s1", header |-> token, bearer |-> None]

MCPrincipalOf == [own |-> "p1", inv |-> "p2", see |-> "p3"]
MCFirst       == {<<"p1", "s1", "owner">>, <<"p2", "s1", "controller">>,
                  <<"p3", "s1", "viewer">>}
MCInvitations == {<<"p2", "s1", "controller">>}

\* The owner's client works on the memory and sends a hold that is refused; the
\* other one presses a button, as a principal that may lose and regain its
\* grant or as one that may only look.
MCRequests ==
  [c \in {"c1", "c2"} |->
     IF c = "c1"
     THEN { Ask("write16", <<Hex(16), Dec(27)>>, "own"),
            Ask("write32", <<Dec(0), Hex(228)>>, "own"),
            Ask("readrange", <<Hex(17), Dec(2)>>, "own"),
            Ask("savestateslot", <<Dec(1)>>, "own"),
            Ask("loadstateslot", <<Dec(1)>>, "own"),
            Ask("loadstateslot", <<Dec(4)>>, "own"),
            Ask("reset", <<>>, "own"),
            Ask("currentframe", <<>>, "own"),
            Ask("hold", <<Name("B"), Hex(7)>>, "own") }
     ELSE { Ask("tap", <<Name("A")>>, "see"),
            Ask("logs", <<>>, "see"),
            [Ask("hold", <<Name("B"), Dec(300)>>, None) EXCEPT !.bearer = "inv"] }]
=============================================================================
