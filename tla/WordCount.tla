------------------------------- MODULE WordCount -------------------------------
(***************************************************************************)
(* The hash table of words of warmup/wc.c.  A text is its runs of letters, *)
(* each followed by one space (a run is empty where two spaces meet), and  *)
(* what stands after the last space.  mem counts what has been allocated   *)
(* and not freed.                                                          *)
(***************************************************************************)
EXTENDS Integers, SequencesExt, FiniteSets

CONSTANTS Words,       \* words of letters
          Empty,       \* the empty run
          Buckets,     \* indices of wcArray
          Hash,        \* hash(word) % size
          MaxRuns      \* bound: runs of a text

ASSUME WordsAssumption ==
    /\ Empty \notin Words /\ Buckets # {} /\ MaxRuns \in Nat
    /\ Hash \in [Words -> Buckets]

Texts == UNION {[1..n -> Words \cup {Empty}] : n \in 0..MaxRuns}

VARIABLES text, rest,  \* the runs and what follows the last space
          at,          \* the run that i points to
          wcArray,     \* a list of nodes per bucket
          mem,
          stage        \* "init", "ready", "destroyed", "overrun"

wordVars == <<text, rest, at, wcArray, mem, stage>>

WordInit ==
    /\ text \in Texts /\ rest \in Words \cup {Empty} /\ at = 1
    /\ wcArray = [b \in Buckets |-> <<>>]
    /\ mem = 2 /\ stage = "init"

Node(w) == [word |-> w, counts |-> 1]

\* Mutants
HeadOnly(s, w) == IF s # <<>> /\ s[1].word = w THEN 1 ELSE 0

\* The node of s that holds w, 0 if there is none.
NodeOf(s, w) == SelectInSeq(s, LAMBDA e : e.word = w)

\* The table after one more w: its node counts up or a new node goes last.
Counted(w) ==
    LET s == wcArray[Hash[w]]
        k == NodeOf(s, w)
    IN [wcArray EXCEPT ![Hash[w]] =
           IF k = 0 THEN Append(s, Node(w)) ELSE [s EXCEPT ![k].counts = @ + 1]]

\* One round of the loop of wc_init: a string is allocated for every run and
\* stays allocated, also where no node refers to it.
wc_init_run ==
    /\ stage = "init" /\ at <= Len(text)
    /\ at' = at + 1
    /\ IF text[at] = Empty THEN wcArray' = wcArray /\ mem' = mem + 1
       ELSE /\ wcArray' = Counted(text[at])
            /\ mem' = mem + IF NodeOf(wcArray[Hash[text[at]]], text[at]) = 0 THEN 2 ELSE 1
    /\ UNCHANGED <<text, rest, stage>>

\* The end of the text: the search for a space does not stop there, so letters
\* after the last space are followed beyond the array.
wc_init_end ==
    /\ stage = "init" /\ at > Len(text)
    /\ stage' = IF rest = Empty THEN "ready" ELSE "overrun"
    /\ UNCHANGED <<text, rest, at, wcArray, mem>>

\* What wc_output prints: a line for every node of every bucket.
wc_output ==
    UNION {{[bucket |-> b, place |-> k, word |-> wcArray[b][k].word,
             counts |-> wcArray[b][k].counts] : k \in 1..Len(wcArray[b])} : b \in Buckets}

\* delete frees the strings of a bucket and every node but its head.
Deleted == Cardinality(wc_output) + Cardinality({l \in wc_output : l.place > 1})

wc_destroy ==
    /\ stage = "ready" /\ stage' = "destroyed"
    /\ mem' = mem - 2 - Deleted
    /\ wcArray' = [b \in Buckets |-> <<>>]
    /\ UNCHANGED <<text, rest, at>>

WordNext == wc_init_run \/ wc_init_end \/ wc_destroy

WordSpec == WordInit /\ [][WordNext]_wordVars

-----------------------------------------------------------------------------
(* Properties.                                                             *)

Seen(w) == {k \in 1..at - 1 : text[k] = w}
Used    == {Hash[w] : w \in {x \in Words : Seen(x) # {}}}
Extra   == Seen(Empty) \cup {k \in 1..at - 1 : \E j \in 1..k - 1 : text[j] = text[k]}

\* In every state of the table wc_output prints each word of the text that was
\* read, once, in the bucket where the search for it begins, with the number
\* of its runs; whatever collides, and in whatever order the words come.
\* wc_destroy leaves behind, in the words of wc.h a "memory loss": the head of
\* each bucket that was used and the string of each run without a node.
WordsSound ==
    /\ stage # "destroyed" => \A w \in Words :
          LET lines == {l \in wc_output : l.word = w}
          IN IF Seen(w) = {} THEN lines = {}
             ELSE /\ Cardinality(lines) = 1
                  /\ \A l \in lines : l.bucket = Hash[w] /\ l.counts = Cardinality(Seen(w))
    /\ stage = "destroyed" => mem = Cardinality(Used) + Cardinality(Extra)
===============================================================================
