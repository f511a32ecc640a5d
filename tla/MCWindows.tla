----------------------------- MODULE MCWindows -----------------------------
(***************************************************************************)
(* Interfaces for WindowsSource: two adapters whose names differ by a      *)
(* suffix, one described in the words every path holds, one without a      *)
(* description, and loopback.                                              *)
(***************************************************************************)
EXTENDS WindowsSource

Lowered == [w \in {"Npf", "npf", "Eth", "eth", "2", "A", "B", "C", "D", "E", "Wi"} |->
              CASE w = "Npf" -> "npf" [] w = "Eth" -> "eth" [] OTHER -> w]

Dev(path, desc, up, loopback, addrs) ==
  [path |-> path, desc |-> desc, up |-> up, loopback |-> loopback, addrs |-> addrs]

Devices ==
  {Dev(<<"Npf", "A">>, <<"Eth">>, TRUE, FALSE, {"link-local"}),
   Dev(<<"Npf", "B">>, <<"Eth", "2">>, FALSE, FALSE, {"link-local", "global"}),
   Dev(<<"Npf", "C">>, <<"Npf", "2">>, TRUE, FALSE, {"global"}),
   Dev(<<"Npf", "E">>, <<>>, TRUE, FALSE, {}),
   Dev(<<"Npf", "D">>, <<"eth">>, TRUE, TRUE, {"loopback"})}

\* Npcap lists an interface once.
SomeListings == {l \in UNION {[1..n -> Devices] : n \in 0..2} : IsInjective(l)}

SomeWants == {<<>>, <<"Eth">>, <<"eth", "2">>, <<"2">>, <<"Npf", "B">>, <<"npf", "B">>,
              <<"npf">>, <<"A">>, <<"npf", "E">>, <<"Wi">>}

=============================================================================
