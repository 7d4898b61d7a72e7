------------------------------- MODULE FxTools ------------------------------
(***************************************************************************)
(* tools_fx.cpp, tools_mix.cpp and style_palette.h: the effects of a track, *)
(* of a take and of the master, and the mastering styles.                  *)
(***************************************************************************)
EXTENDS MidiTools

\* Effects a call may ask for: one REAPER can always add, and one it cannot.
FxArgs == {"ReaEQ", "missing"}

\* Indices there is an effect at, and one there is none at: REAPER ignores it.
FxIndices == {1, 9}

Presets == 3

\* The five edits of an effect, on whatever holds the chain: s tells whether it is
\* there, put(chain) is the project with another chain.  TrackFX_AddByName adds a new
\* effect at the end, or nothing.  A parameter is given as a value, as a normalised
\* value, or (-1) not at all.
FxAdded(tool, args, name, s, chain, put(_)) ==
    Returns(tool, args, Need(InBlock(s, IF name # "missing" THEN put(Append(chain, Fx(name))) ELSE P), name # "missing"))

FxParam(tool, args, k, v, s, chain, put(_)) ==
    Returns(tool, args, InBlock(Need(s, v # -1),
                                IF k \in DOMAIN chain THEN put([chain EXCEPT ![k].param = v]) ELSE P))

FxRemoved(tool, args, k, s, chain, put(_)) ==
    Returns(tool, args, Need(InBlock(s, IF k \in DOMAIN chain THEN put(RemoveAt(chain, k)) ELSE P), k \in DOMAIN chain))

FxEnabled(tool, args, k, on, s, chain, put(_)) ==
    Returns(tool, args, InBlock(s, IF k \in DOMAIN chain THEN put([chain EXCEPT ![k].on = on]) ELSE P))

TrackFx(t)           == P.tracks[t].fx
PutTrackFx(t, chain) == [P EXCEPT !.tracks[t].fx = chain]
TakeFx(x)            == The(x).fx
PutTakeFx(x, chain)  == WithTake(x, [The(x) EXCEPT !.fx = chain])
PutMasterFx(chain)   == [P EXCEPT !.master.fx = chain]

-----------------------------------------------------------------------------
\* fx.add, fx.list, fx.get_param, fx.set_param
TrackFxAddSet ==
    \E t \in TrackArgs :
      LET s == Need(Now, IsTrack(t))
          put(chain) == PutTrackFx(t, chain)
      IN  \/ \E name \in FxArgs : FxAdded("fx.add", <<t, name>>, name, s, TrackFx(t), put)
          \/ \E tool \in {"fx.list", "fx.get_param"} : Returns(tool, <<t>>, s)
          \/ \E k \in FxIndices, v \in {1, -1} : FxParam("fx.set_param", <<t, k, v>>, k, v, s, TrackFx(t), put)

\* fx.remove, fx.set_enabled, fx.get_preset, fx.set_preset: by name, by steps or by neither.
TrackFxRemovePreset ==
    \E t \in TrackArgs :
      LET s == Need(Now, IsTrack(t))
          put(chain) == PutTrackFx(t, chain)
      IN  \/ Returns("fx.get_preset", <<t>>, s)
          \/ \E k \in FxIndices :
               \/ FxRemoved("fx.remove", <<t, k>>, k, s, TrackFx(t), put)
               \/ \E on \in BOOLEAN : FxEnabled("fx.set_enabled", <<t, k, on>>, k, on, s, TrackFx(t), put)
               \/ \E by \in {"preset", "move", "none"} :
                    LET u    == Need(s, by # "none")
                        here == u.ok /\ k \in DOMAIN TrackFx(t)
                    IN  Returns("fx.set_preset", <<t, k, by>>,
                          Need(InBlock(u, IF ~here THEN P
                                          ELSE put([TrackFx(t) EXCEPT ![k].preset =
                                                      IF by = "preset" THEN 2 ELSE (@ + 1) % Presets])),
                               here))

\* takefx.add, takefx.list, takefx.remove
TakeFxAddRemove ==
    \E x \in ItemArgs :
      LET s == HasTake(Now, x)
          put(chain) == PutTakeFx(x, chain)
      IN  \/ \E name \in FxArgs : FxAdded("takefx.add", x \o <<name>>, name, s, TakeFx(x), put)
          \/ Returns("takefx.list", x, s)
          \/ s.ok /\ \E k \in FxIndices : FxRemoved("takefx.remove", x \o <<k>>, k, s, TakeFx(x), put)

\* takefx.get_param, takefx.set_param, takefx.set_enabled
TakeFxSet ==
    \E x \in ItemArgs :
      LET s == HasTake(Now, x)
          put(chain) == PutTakeFx(x, chain)
      IN  \/ Returns("takefx.get_param", x, s)
          \/ \E k \in FxIndices :
               \/ \E v \in {1, -1} : FxParam("takefx.set_param", x \o <<k, v>>, k, v, s, TakeFx(x), put)
               \/ \E on \in BOOLEAN : FxEnabled("takefx.set_enabled", x \o <<k, on>>, k, on, s, TakeFx(x), put)

\* master.get, master.set, master.add_fx
Master ==
    \/ Returns("master.get", <<>>, Now)
    \/ \E db \in {0, 6}, mute \in BOOLEAN :
         Returns("master.set", <<db, mute>>,
                 InBlock(Now, [P EXCEPT !.master = With(With(@, "vol", db), "mute", Flag(mute))]))
    \/ \E name \in FxArgs : FxAdded("master.add_fx", <<name>>, name, Now, P.master.fx, PutMasterFx)

\* master.set_fx_param, master.remove_fx: which looks at the index first.
MasterFx ==
    \E k \in FxIndices :
      \/ \E v \in {1, -1} : FxParam("master.set_fx_param", <<k, v>>, k, v, Now, P.master.fx, PutMasterFx)
      \/ FxRemoved("master.remove_fx", <<k>>, k, Need(Now, k \in DOMAIN P.master.fx), P.master.fx, PutMasterFx)

-----------------------------------------------------------------------------
(* Mastering styles: an equaliser with a preferred plug-in and a limiter. *)

InBox == {"ReaEQ", "ReaLimit"}

Step(role, fx, inbox, multichannel) == [role |-> role, fx |-> fx, inbox |-> inbox, multichannel |-> multichannel]

\* resolveChain: the preferred plug-in when it is installed; on a wide bed the limiter
\* that reaches all its channels.
resolveChain(installed, nchan) ==
    <<Step("eq", IF "Pro" \in installed THEN "Pro" ELSE "ReaEQ", "ReaEQ", FALSE),
      Step("limiter", IF nchan > 2 THEN "MC" ELSE "ReaLimit", "ReaLimit", nchan > 2)>>

\* Mutant: an effect the style had to fall back to is not recognised.
AlreadyApplied_NoFallback(chain, steps) ==
    Len(chain) >= Len(steps)
      /\ \A k \in DOMAIN steps : chain[Len(chain) - Len(steps) + k].name = steps[k].fx

\* The end of the chain is the style already, fallbacks included.
AlreadyApplied(chain, steps) ==
    Len(chain) >= Len(steps)
      /\ \A k \in DOMAIN steps : chain[Len(chain) - Len(steps) + k].name \in {steps[k].fx, steps[k].inbox}

\* The steps that can be added, each under the first name that adds.  What a style sets of
\* an effect, its pins included, is one value.
Inserted(chain, steps, addable) ==
    FoldLeft(LAMBDA acc, step :
               IF {step.fx, step.inbox} \cap addable = {} THEN acc
               ELSE LET name == IF step.fx \in addable THEN step.fx ELSE step.inbox
                    IN  Append(acc, [Fx(name) EXCEPT !.param = IF step.role = "limiter" THEN 1 ELSE 0]),
             chain, steps)

\* mix.apply_style: what is listed as installed need not be addable.
ApplyStyle ==
    \E t \in TrackArgs, known \in BOOLEAN, installed \in {{}, {"Pro"}}, addable \in {InBox, InBox \cup {"Pro", "MC"}} :
      LET s     == Need(Need(Now, known), IsTrack(t))
          steps == resolveChain(installed, P.tracks[t].nchan)
          args  == <<t, known, installed, addable>>
      IN  \/ Previews("mix.apply_style", args, s)
          \/ Returns("mix.apply_style", args,
                     IF s.ok /\ AlreadyApplied(TrackFx(t), steps) THEN s
                     ELSE InBlock(s, PutTrackFx(t, Inserted(TrackFx(t), steps, addable))))

FxNext ==
    \/ TrackFxAddSet \/ TrackFxRemovePreset \/ TakeFxAddRemove \/ TakeFxSet
    \/ Master \/ MasterFx \/ ApplyStyle
=============================================================================
