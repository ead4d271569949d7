------------------------------ MODULE MCEngine ------------------------------
(* Three guilds with one role each: a chain main -> dept -> unit can be     *)
(* built, closed with a third mapping, and fed twice.                       *)
EXTENDS EngineRuns, TLC

CONSTANTS gMain, gDept, gUnit, rMain, rDept, rUnit

MCGuild == {gMain, gDept, gUnit}
MCRole == {rMain, rDept, rUnit}
MCGuildOf == (rMain :> gMain) @@ (rDept :> gDept) @@ (rUnit :> gUnit)

\* (direction, authority) pairs; the remaining ones expand to the same edges
\* or to half of the two-way ones.
Shape == {<<"ONE_WAY", "SOURCE_DISCORD">>, <<"ONE_WAY", "TARGET_DISCORD">>,
          <<"TWO_WAY", "MANUAL">>}
Switches == {<<TRUE, TRUE>>, <<TRUE, FALSE>>, <<FALSE, TRUE>>}

MappingsOver(i, s, t, p) ==
    {[id |-> i, source |-> s, target |-> t, direction |-> sh[1], authority |-> sh[2],
      syncAdd |-> sw[1], syncRemove |-> sw[2], priority |-> p] : sh \in Shape, sw \in Switches}

\* Two mappings: a chain in either direction or two with a common role, in
\* every evaluation order, or none at all.
SecondPair == {<<rDept, rUnit>>, <<rUnit, rDept>>}
Priorities == {<<1, 1>>, <<1, 2>>}

MappingSets ==
    {{}} \cup
    UNION {{{m, n} : m \in MappingsOver(1, rMain, rDept, p[1]),
                     n \in MappingsOver(2, pair[1], pair[2], p[2])}
             : pair \in SecondPair, p \in Priorities}

\* (linked, active grants): a visitor, a member without and with the grant.
Accounts == {<<FALSE, {}>>, <<TRUE, {}>>, <<TRUE, GrantRole>>}

MCContexts ==
    {[guilds |-> MCGuild, mappings |-> ms, grants |-> a[2], linked |-> a[1]]
       : ms \in MappingSets, a \in Accounts}

\* One mirroring mapping of priority p; the contexts of the smaller runs.
Mirror(i, s, t, p) ==
    [id |-> i, source |-> s, target |-> t, direction |-> "ONE_WAY",
     authority |-> "SOURCE_DISCORD", syncAdd |-> TRUE, syncRemove |-> TRUE, priority |-> p]
Visitor(ms) == [guilds |-> MCGuild, mappings |-> ms, grants |-> {}, linked |-> FALSE]

\* A chain main -> dept -> unit, the second link with any priority.
ChainContexts == {Visitor({Mirror(1, rMain, rDept, 1), Mirror(2, rDept, rUnit, p)}) : p \in 1 .. 2}
=============================================================================
