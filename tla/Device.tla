------------------------------- MODULE Device -------------------------------
(***************************************************************************)
(* Which interface a live capture opens: pickDevice and defaultDevice of   *)
(* internal/capture/live_windows.go, and DefaultInterface of live.go, as   *)
(* operators on a listing of interfaces.                                   *)
(*                                                                         *)
(* A string is a sequence of words; LowerCase gives the lower case of each *)
(* word.  An address is known by its kind.                                 *)
(*                                                                         *)
(* A definition marked as a fault is not part of the specification: put in *)
(* place of the definition after it, it must break a property (README).    *)
(***************************************************************************)
EXTENDS Naturals, FiniteSets, SequencesExt

CONSTANT LowerCase   \* the lower case of each word

Lower(s) == [i \in DOMAIN s |-> LowerCase[s[i]]]

\* strings.Contains
Holds(s, part) == part \in SubSeqs(s)

\* listDevices: an interface without a description goes by its path.
Name(dev) == IF dev.desc = <<>> THEN dev.path ELSE dev.desc

\* hasRoutableAddress
HasRoutableAddress(addrs) ==
  \E a \in addrs : a \notin {"malformed", "link-local", "unspecified", "loopback"}

\* The first of a listing that meets a condition, 0 if none does.
FirstOf(S) == IF S = {} THEN 0 ELSE Min(S)

\* The only one of a listing that meets a condition, 0 if it is not unique.
OnlyOf(S) == IF Cardinality(S) = 1 THEN Min(S) ELSE 0

\* defaultDevice, DefaultInterface: two passes, the first over interfaces that
\* are up.
DefaultDevice(devs) ==
  LET usable == {i \in DOMAIN devs : ~devs[i].loopback /\ HasRoutableAddress(devs[i].addrs)}
      up == {i \in usable : devs[i].up}
  IN  IF up # {} THEN FirstOf(up) ELSE FirstOf(usable)

\* A fault: a whole name is not preferred to a part of one.
TiersLoose(devs, want) ==
  <<{i \in DOMAIN devs : Holds(Lower(Name(devs[i])), Lower(want))},
    {i \in DOMAIN devs : Holds(Lower(devs[i].path), Lower(want))}>>

\* The ways in which want may name an interface, in the order they are tried
\* once no device path equals it.
Tiers(devs, want) ==
  <<{i \in DOMAIN devs : Lower(Name(devs[i])) = Lower(want)},
    {i \in DOMAIN devs : Holds(Lower(Name(devs[i])), Lower(want))},
    {i \in DOMAIN devs : Holds(Lower(devs[i].path), Lower(want))}>>

\* pickDevice: the index of the device, 0 for an error.
PickDevice(devs, want) ==
  LET exact == {i \in DOMAIN devs : devs[i].path = want}
      tiers == Tiers(devs, want)
      hit == {t \in DOMAIN tiers : tiers[t] # {}}
  IN  IF want = <<>> THEN DefaultDevice(devs)
      ELSE IF exact # {} THEN FirstOf(exact)
      ELSE IF hit = {} THEN 0
      ELSE OnlyOf(tiers[Min(hit)])

=============================================================================
