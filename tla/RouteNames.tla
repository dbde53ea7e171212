----------------------------- MODULE RouteNames -----------------------------
(***************************************************************************)
(* What a route's name says about where its bus goes, which the server     *)
(* works out for the default schedule and every client works out again for *)
(* the requests of its rider, each in its own way.  A name is a sequence   *)
(* of the pieces the two look for and of other words.                      *)
(***************************************************************************)
EXTENDS Naturals, SequencesExt

CONSTANTS
  Words,      \* pieces of names without a meaning
  MaxPieces   \* bound on the length of a name

Arrow == "->"
University == "AUC"
Blank == " "              \* a space or a tab
HardBlank == "no-break"   \* any other white space

WhiteSpace == {Blank, HardBlank}

Pieces == Words \cup {Arrow, University} \cup WhiteSpace

ASSUME NamesAssumption ==
  MaxPieces \in Nat /\ Words \cap ({Arrow, University} \cup WhiteSpace) = {}

VARIABLE name   \* of the route being added
----------------------------------------------------------------------------
(* The first place of a piece in a text, 0 if it has none.                 *)
Find(text, piece) == SelectInSeq(text, LAMBDA p : p = piece)

After(text, place) == SubSeq(text, place + 1, Len(text))

TrimLeading(text, blanks) ==
  After(text, SelectInSeq(text \o <<Arrow>>, LAMBDA p : p \notin blanks) - 1)

(* The server erases spaces and tabs in front,                             *)
ServerTrimmed(text) == TrimLeading(text, {Blank})

(* QString::trimmed all white space at both ends.                          *)
Trimmed(text) ==
  Reverse(TrimLeading(Reverse(TrimLeading(text, WhiteSpace)), WhiteSpace))

(* QString::remove: every occurrence of a piece goes.                      *)
RemoveEach(text, piece) ==
  FlattenSeq([i \in DOMAIN text |-> IF text[i] = piece THEN <<>> ELSE <<text[i]>>])

OtherStop(text) == IF text = <<>> THEN <<"Other Stop">> ELSE text

(* Mutant: rfind, what follows the last arrow.                             *)
ServerDestinationAtLast(text) ==
  IF Find(text, Arrow) # 0
  THEN ServerTrimmed(After(text, SelectLastInSeq(text, LAMBDA p : p = Arrow)))
  ELSE OtherStop(ServerTrimmed(
         IF Find(text, University) # 0 THEN RemoveAt(text, Find(text, University))
                                       ELSE text))

(* DataStore::generateDefaultSchedule: what follows the first arrow, or    *)
(* the name without its first AUC.                                         *)
ServerDestination(text) ==
  IF Find(text, Arrow) # 0 THEN ServerTrimmed(After(text, Find(text, Arrow)))
  ELSE OtherStop(ServerTrimmed(
         IF Find(text, University) # 0 THEN RemoveAt(text, Find(text, University))
                                       ELSE text))

(* UserDashboard::onReqRouteSelectionChanged: every AUC goes.              *)
ClientDestination(text) ==
  IF Find(text, Arrow) # 0 THEN Trimmed(After(text, Find(text, Arrow)))
  ELSE OtherStop(Trimmed(RemoveEach(text, University)))
----------------------------------------------------------------------------
(* The administrator types a name.                                         *)
NamesInit == name = <<>>

NamesNext == \E p \in Pieces : Len(name) < MaxPieces /\ name' = Append(name, p)

NamesSpec == NamesInit /\ [][NamesNext]_name
----------------------------------------------------------------------------
(* Properties *)

Universities == Cardinality({i \in DOMAIN name : name[i] = University})

(* Up to white space around it, which the server leaves in part, a rider   *)
(* asks for the destination that the default schedule names, for names     *)
(* with an arrow and names with at most one AUC: the two derivations of    *)
(* DataStore and UserDashboard agree there.  Without an arrow nothing but  *)
(* white space is the other stop to the client.                            *)
DestinationsAgree ==
  LET served == Trimmed(ServerDestination(name)) IN
  IF Find(name, Arrow) # 0 THEN ClientDestination(name) = served
  ELSE Universities <= 1 => ClientDestination(name) = OtherStop(served)
=============================================================================
