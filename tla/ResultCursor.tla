---------------------------- MODULE ResultCursor ----------------------------
(***************************************************************************)
(* What the keyboard does in the results window of the documentation's     *)
(* search, seen from outside: a cursor in the list of the entries shown.   *)
(* Position 0 is outside the list.                                         *)
(***************************************************************************)
EXTENDS Naturals, Sequences

CONSTANTS
  Entry,
  Heads  \* the entries that are no result shown below another entry

VARIABLES
  entries, \* the entries shown, from top to bottom
  at       \* the position of the one that has the focus, or 0

vars == <<entries, at>>

TypeOK ==
  /\ entries \in Seq(Entry)
  /\ at \in 0 .. Len(entries)

Init == TypeOK /\ at = 0

\* Another document, with another list.
Load ==
  /\ entries' \in Seq(Entry)
  /\ at' = 0

EnterList ==
  /\ at = 0
  /\ entries # << >>
  /\ at' = 1
  /\ UNCHANGED entries

Up ==
  /\ at > 0
  /\ at' = at - 1
  /\ UNCHANGED entries

\* Up from an entry to the one above it, past the results shown between the two.
UpPastResults ==
  /\ at \in DOMAIN entries
  /\ at' \in 1 .. at - 1
  /\ {entries[at], entries[at']} \subseteq Heads
  /\ \A i \in at' + 1 .. at - 1 : entries[i] \notin Heads
  /\ UNCHANGED entries

Down ==
  /\ at \in 1 .. Len(entries) - 1
  /\ at' = at + 1
  /\ UNCHANGED entries

Leave ==
  /\ at' = 0
  /\ UNCHANGED entries

\* Results of an entry are shown or hidden: by a key on the entry that has the
\* focus, or by a click that gives it the focus.
Unfold ==
  /\ entries' \in Seq(Entry)
  /\ entries' # entries
  /\ at' \in DOMAIN entries'
  /\ \E i \in DOMAIN entries : entries[i] = entries'[at']

Next == Load \/ EnterList \/ Up \/ UpPastResults \/ Down \/ Leave \/ Unfold

Spec == Init /\ [][Next]_vars
=============================================================================
