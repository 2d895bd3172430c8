------------------------------ MODULE MCApple ------------------------------
(* Two calendars, which can hold the same event, one list of reminders and  *)
(* the address book; two items, two requests at the same time.              *)
EXTENDS Apple

CONSTANTS c1, c2, l1

MCCalendars == <<c1, c2>>
MCLists == <<l1>>
MCContents == {{}, {"notes"}, {"emails"}}
MCPatches == {{}, {"start", "notes"}, {"title", "due_date", "completed"}}

Symmetry == Permutations(Ids) \cup Permutations(Calls)
=============================================================================
