--------------------------- MODULE SettingsStore ---------------------------
(***************************************************************************)
(* What the stored configuration promises.  A program starts with the      *)
(* settings that are kept.  Kept settings change when a save ends, and      *)
(* then to what the program was using, or when they are erased; the loss   *)
(* of power touches them only in the middle of a save.  Settings say which *)
(* program's factory values they descend from (by): the application        *)
(* replaces all others by its own.  due: a firmware copy is asked for.     *)
(***************************************************************************)
CONSTANTS Choices,          \* the settings proper
          Default           \* their factory values

VARIABLES kept,             \* what the next start finds
          live,             \* what the running program uses, None if none runs
          saving            \* a save is under way

vars == <<kept, live, saving>>

Settings == [by : {"boot", "app"}, choice : Choices, due : BOOLEAN]
None     == [by |-> "none", choice |-> Default, due |-> FALSE]
Nothing  == [by |-> "boot", choice |-> Default, due |-> FALSE]
Factory(s, prog) == [by |-> prog, choice |-> Default, due |-> s.due]
WithoutCopy(s)   == [by |-> s.by, choice |-> s.choice, due |-> FALSE]

TypeOK == kept \in Settings /\ live \in Settings \cup {None} /\ saving \in BOOLEAN

Init == kept \in Settings /\ live = None /\ saving = FALSE

Start  == live = None /\ live' = kept /\ UNCHANGED <<kept, saving>>
Reject == /\ live = None /\ kept.by # "app"
          /\ live' = Factory(kept, "app") /\ saving' = TRUE /\ UNCHANGED kept
Change == /\ live # None /\ ~saving /\ live' \in Settings
          /\ UNCHANGED <<kept, saving>>
Begin  == /\ live # None /\ ~saving /\ live' \in Settings
          /\ saving' = TRUE /\ UNCHANGED kept
Reset  == /\ saving /\ live' = Factory(live, "boot") /\ UNCHANGED <<kept, saving>>
End    == saving /\ saving' = FALSE /\ kept' = live /\ UNCHANGED live
Forget == live # None /\ ~saving /\ kept' = Nothing /\ UNCHANGED <<live, saving>>
Stop   == /\ live' = None /\ saving' = FALSE
          /\ kept' \in IF saving THEN {kept, Nothing, WithoutCopy(live)}
                                 ELSE {kept}

Next == \/ Start \/ Reject \/ Change \/ Begin \/ Reset \/ End \/ Forget \/ Stop

Spec == Init /\ [][Next]_vars
=============================================================================
