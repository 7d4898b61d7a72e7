----------------------------- MODULE ActionTools ----------------------------
(***************************************************************************)
(* tools_actions.cpp and actions_policy.h: any action of REAPER by its     *)
(* command id or name, unless the policy denies it.                        *)
(***************************************************************************)
EXTENDS FxTools

\* Commands: one that mutes the selected tracks or unmutes them, one that opens a
\* dialog and one that closes the project.
Commands == {"mute", "dialog", "close"}

builtinDeniedCommandIds == {"close"}
deniedNames             == {"dialog", "close"}

\* What the configuration file may list: nothing, or the actions an operator allows.
Policies == {{}, {"mute"}, {"dialog", "close"}}

\* evaluate: a list that is there decides alone.
Allowed(cmd, allow) ==
    IF allow # {} THEN cmd \in allow ELSE cmd \notin builtinDeniedCommandIds \cup deniedNames

\* Main_OnCommand
OnCommand(s, cmd) ==
    IF ~s.ok THEN s
    ELSE CASE cmd = "mute"  -> Write(s, [s.proj EXCEPT !.tracks = [t \in DOMAIN @ |->
                                 IF @[t].id \in s.ui.tracks THEN With(@[t], "mute", 1 - Attr(@[t], "mute")) ELSE @[t]]])
           [] cmd = "close" -> Loaded(s, Empty)
           [] OTHER         -> s

\* Mutant: a preview of an action runs it.
runActionResolved_Runs(tool, args, cmd, allow, dryRun) ==
    IF dryRun THEN Previews(tool, args, End(OnCommand(Begin(Now), cmd)))
    ELSE Returns(tool, args, End(OnCommand(Begin(Need(Now, Allowed(cmd, allow))), cmd)))

\* runActionResolved: one undo block around whatever the action does.
runActionResolved(tool, args, cmd, allow, dryRun) ==
    IF dryRun THEN Previews(tool, args, Now)
    ELSE LET s == OnCommand(Begin(Need(Now, Allowed(cmd, allow))), cmd)
         IN  Returns(tool, args, IF s.depth > 0 THEN End(s) ELSE s)

\* action.run
ActionRun ==
    \E cmd \in Commands, allow \in Policies, dryRun \in BOOLEAN :
      runActionResolved("action.run", <<cmd, allow>>, cmd, allow, dryRun)

\* action.run_by_name, which may know no such name.
ActionRunByName ==
    \/ \E allow \in Policies, dryRun \in BOOLEAN :
         runActionResolved("action.run_by_name", <<"mute", allow>>, "mute", allow, dryRun)
    \/ Returns("action.run_by_name", <<"unknown">>, Need(Now, FALSE))

ActionToggleState == \E cmd \in Commands : Returns("action.get_toggle_state", <<cmd>>, Now)

ActionNext == ActionRun \/ ActionRunByName \/ ActionToggleState
=============================================================================
