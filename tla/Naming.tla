------------------------------- MODULE Naming -------------------------------
(***************************************************************************)
(* The column names a file's headers become, data/schema.py.  A header is  *)
(* the sequence of the words that are left of it in lower case, empty when *)
(* nothing is; a name is a sequence of words too, and the limit on its     *)
(* length counts them.  A word is a text or a number.                      *)
(***************************************************************************)
EXTENDS Naturals, Sequences, FiniteSets, Functions, SequencesExt

CONSTANTS
    Texts,    \* what headers are made of
    Numbers,
    Reserved, \* _RESERVED: names that SQL keeps for itself
    MaxWords  \* the cut at 120 characters, in words

ASSUME NamingAssumption ==
    /\ Texts \subseteq STRING /\ Numbers \subseteq Nat /\ Reserved \subseteq STRING
    /\ MaxWords \in Nat /\ MaxWords >= 2  \* "_col" fits behind a reserved word

Text(s) == [text |-> s]
Number(n) == [number |-> n]
Digits == {Number(n) : n \in Numbers}
Words == {Text(s) : s \in Texts} \cup Digits
ReservedNames == {<<Text(s)>> : s \in Reserved}

Header == UNION {[1..n -> Words] : n \in 0..MaxWords}

(* A blank header is named by its position; a digit in front or a reserved  *)
(* word gets "col"; the cut comes last.                                     *)
Candidate(header, position) ==
    LET named == IF header = <<>> THEN <<Text("column"), Number(position)>> ELSE header
        led   == IF Head(named) \in Digits THEN <<Text("col")>> \o named ELSE named
        free  == IF led \in ReservedNames THEN Append(led, Text("col")) ELSE led
    IN  IF Len(free) <= MaxWords THEN free ELSE SubSeq(free, 1, MaxWords)

(* What is tried when a name is taken: _2, _3, ... until one is free.       *)
(* Mutant: the number counts the names that begin alike, free or not.       *)
CountedName(candidate, names) ==
    LET alike == {p \in DOMAIN names : IsPrefix(candidate, names[p])}
    IN  IF alike = {} THEN candidate
        ELSE Append(candidate, Number(Cardinality(alike) + 1))
Try(candidate, n) == IF n = 1 THEN candidate ELSE Append(candidate, Number(n))
FreeName(candidate, names) ==
    LET free == {n \in 1..(Len(names) + 1) : Try(candidate, n) \notin Range(names)}
    IN  Try(candidate, CHOOSE n \in free : \A k \in free : n <= k)

NamesUpTo(headers) ==
    LET upTo[p \in 0..Len(headers)] ==
            IF p = 0 THEN <<>>
            ELSE Append(upTo[p - 1], FreeName(Candidate(headers[p], p), upTo[p - 1]))
    IN  upTo

Names(headers) == NamesUpTo(headers)[Len(headers)]

(* validate_identifier: no digit in front, and the same limit on the length *)
Accepted(name) == Head(name) \notin Digits /\ Len(name) <= MaxWords

-----------------------------------------------------------------------------
(* Columns of one file never share a name, no name is a reserved word, and  *)
(* the warehouse accepts each one, unless it had to be told apart from a    *)
(* column before it that is as long as names get.                           *)
NamesApart(headers) ==
    LET names == Names(headers) IN
    /\ IsInjective(names)
    /\ \A p \in DOMAIN names :
          /\ names[p] \notin ReservedNames
          /\ \/ Accepted(names[p])
             \/ \E q \in 1..(p - 1) :
                   /\ Len(names[q]) >= MaxWords
                   /\ IsPrefix(Candidate(headers[p], p), names[q])
=============================================================================
