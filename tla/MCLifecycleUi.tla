---------------------------- MODULE MCLifecycleUi ----------------------------
(***************************************************************************)
(* Two vaults.  The first is closed at the start; the second is open and   *)
(* in mode always_prompt, with either a list fetch on its way or a request *)
(* given up on, or has to be created.  Where only one vault is used, it is *)
(* in mode always_prompt, with a list fetch and a request given up on, or  *)
(* it is closed or created, and two list fetches overtake one another.     *)
(***************************************************************************)
EXTENDS LifecycleUi

CONSTANTS v1, v2, f1, f2

MCVaults == {v1, v2}
MCFetches == {f1, f2}
Start(first, second, prompts, given, created, lists) ==
    [core |-> [v \in MCVaults |-> IF v = v1 THEN first ELSE second], prompt |-> prompts,
     patience |-> given, new |-> created, fetches |-> lists]
MCStarts ==
    { Start("closed", "open", {v2}, 0, {}, {f1}),
      Start("closed", "open", {v2}, 1, {}, {}),
      Start("open", "absent", {v1}, 1, {}, {f1}),
      Start("closed", "absent", {v1}, 0, {v2}, {f1}),
      Start("closed", "absent", {}, 1, {}, {f1, f2}),
      Start("absent", "absent", {}, 1, {v1}, {f1, f2}) }
=============================================================================
