------------------------------- MODULE MCApart -------------------------------
(***************************************************************************)
(* Four parts of the repository that share no state, in one model for TLC: *)
(* a request over the web, the bytes of a file of testfs, and the two data *)
(* structures of the warm-up exercises.  A behaviour exercises one part,   *)
(* the others stay as they begin.                                          *)
(*                                                                         *)
(* The files on the web: an empty one, and one with a line that fills the  *)
(* client's buffer; name 3 is not found, and the page that says so has two *)
(* lines.  The page for methods that are not known does not fit into its   *)
(* buffer.                                                                 *)
(***************************************************************************)
EXTENDS WebIO, TestfsData, SortedPoints, WordCount

VARIABLE part

seqVars == <<dataVars, pointVars, wordVars>>
allVars == <<part, vars, seqVars>>

ApartInit ==
    /\ Init /\ DataInit /\ PointInit /\ WordInit
    /\ part \in {"web", "data", "points", "words"}
    /\ part # "words" => text = <<>> /\ rest = Empty

InWeb(A) == part = "web" /\ A /\ UNCHANGED <<part, seqVars>>

ApartNext ==
    \/ InWeb(Next)
    \/ part = "data"   /\ DataNext  /\ UNCHANGED <<part, vars, pointVars, wordVars>>
    \/ part = "points" /\ PointNext /\ UNCHANGED <<part, vars, dataVars, wordVars>>
    \/ part = "words"  /\ WordNext  /\ UNCHANGED <<part, vars, dataVars, pointVars>>

\* The fairness of WebIO.
ApartSpec ==
    /\ ApartInit /\ [][ApartNext]_allVars
    /\ WF_allVars(InWeb(Server)) /\ WF_allVars(InWeb(Answer))

X == <<"byte", 1>>
Y == <<"byte", 2>>
MCContent   == << <<>>, <<X, Y, X>> >>
MCRefused   == [f \in 1..3 |-> 404]
MCNameError == [f \in 1..3 |-> <<EOL, Y>>]
MCMethodError == <<Y, Y, X, Y>>
MCCoords    == {-1, 0, 1}
MCHash      == [w \in Words |-> IF w = "c" THEN 2 ELSE 1]
==============================================================================
