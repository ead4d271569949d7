--------------------------- MODULE AuthorityProofs ---------------------------
(* Who may bring about what, for any people, roles, guilds and number of      *)
(* commands.                                                                  *)
EXTENDS Mappings, Permissions, WellFoundedInduction, TLAPS

(***************************************************************************)
(* The second signature: no overlapping of commands, votes, expiries and   *)
(* deletions enables a mapping of a role under two-person protection that  *)
(* only one person has wanted.                                             *)
(***************************************************************************)


RowsAreTyped ==
    /\ mappings \in [MapKey -> Mapping]
    /\ requests \in Seq(Request)
    /\ DOMAIN mapping = Administrator

\* What the checks of a command have left in it.
Sound(c, a, rows) ==
    /\ c.op \in {"create", "update", "enable", "disable", "delete"} =>
           c.key \in MapKey /\ c.row \in Mapping
    /\ c.op = "create" => ~c.row.signed /\ (c.sensitive => ~c.row.enabled)
    /\ c.op = "enable" => (c.sensitive => c.before.signed)
    /\ c.op = "disable" => ~c.row.enabled
    /\ c.op = "vote" => c.request \in DOMAIN rows /\ rows[c.request].by # a /\ c.approve \in BOOLEAN

CommandsAreSound == \A a \in Administrator : Sound(mapping[a], a, requests)

\* A mapping's signature stems from a vote.
SignaturesAreVotes == \A k \in MapKey : mappings[k].signed => SignedByAnother(k, requests)

IInv == RowsAreTyped /\ CommandsAreSound /\ SignaturesAreVotes /\ SensitiveSigned

\* Requests are added and voted on; nothing else becomes of them.
Grows(old, new) ==
    /\ DOMAIN old \subseteq DOMAIN new
    /\ \A i \in DOMAIN old : /\ new[i].mapping = old[i].mapping /\ new[i].by = old[i].by
                             /\ old[i].votes \subseteq new[i].votes

InUse(row) == row.state = "live" /\ row.enabled

-----------------------------------------------------------------------------

LEMMA SignatureStays ==
  ASSUME NEW k, NEW old, NEW new, Grows(old, new), SignedByAnother(k, old)
  PROVE  SignedByAnother(k, new)
  BY DEF Grows, SignedByAnother

LEMMA SoundStays ==
  ASSUME NEW c, NEW a, NEW old, NEW new, Grows(old, new), Sound(c, a, old)
  PROVE  Sound(c, a, new)
  BY DEF Grows, Sound

LEMMA InitIInv == MappingsInit => IInv
<1> SUFFICES ASSUME MappingsInit PROVE IInv
  OBVIOUS
<1> USE DEF MappingsInit
<1>1. RowsAreTyped BY MappingsConstants, SignaturesAtFirst DEF RowsAreTyped
<1>2. CommandsAreSound BY DEF CommandsAreSound, Sound, AtRest
<1>3. SignaturesAreVotes BY SignaturesAtFirst DEF SignaturesAreVotes
<1>4. SensitiveSigned BY SignaturesAtFirst DEF SensitiveSigned, Enabled, Sensitive
<1>5. QED BY <1>1, <1>2, <1>3, <1>4 DEF IInv

\* What a step has to show: a new signature and a new use of a protected role
\* have a vote behind them.
LEMMA StepKeeps ==
  ASSUME IInv, RowsAreTyped', CommandsAreSound', Grows(requests, requests'),
         \A k \in MapKey : mappings'[k].signed =>
             mappings[k].signed \/ SignedByAnother(k, requests'),
         \A k \in MapKey \ staleSigns' : InUse(mappings'[k]) /\ Sensitive(k)' =>
             \/ k \notin staleSigns /\ InUse(mappings[k]) /\ Sensitive(k)
             \/ SignedByAnother(k, requests')
  PROVE  IInv'
<1>1. SignaturesAreVotes'
  <2> SUFFICES ASSUME NEW k \in MapKey, mappings'[k].signed PROVE SignedByAnother(k, requests')
    BY DEF SignaturesAreVotes, SignedByAnother
  <2>1. CASE mappings[k].signed
    <3>1. SignedByAnother(k, requests) BY <2>1 DEF IInv, SignaturesAreVotes
    <3>2. QED BY <3>1, SignatureStays
  <2>2. QED BY <2>1
<1>2. SensitiveSigned'
  <2> SUFFICES ASSUME NEW k \in MapKey \ staleSigns', InUse(mappings'[k]), Sensitive(k)'
               PROVE  SignedByAnother(k, requests')
    BY DEF SensitiveSigned, SignedByAnother, Enabled, InUse
  <2>1. CASE k \notin staleSigns /\ InUse(mappings[k]) /\ Sensitive(k)
    <3>1. k \in Enabled \ staleSigns BY <2>1 DEF Enabled, InUse
    <3>2. SignedByAnother(k, requests) BY <2>1, <3>1 DEF IInv, SensitiveSigned
    <3>3. QED BY <3>2, SignatureStays
  <2>2. QED BY <2>1
<1>3. QED BY <1>1, <1>2 DEF IInv

\* Steps of sweeps, events, guilds and clocks only switch mappings off.
LEMMA SwitchingOffKeeps ==
  ASSUME IInv, UNCHANGED <<mapping, protection>>, requests' \in Seq(Request),
         Grows(requests, requests'), staleSigns \subseteq staleSigns',
         mappings' \in [MapKey -> Mapping],
         \A k \in MapKey : /\ mappings'[k].signed = mappings[k].signed
                           /\ InUse(mappings'[k]) => InUse(mappings[k])
  PROVE  IInv'
<1>1. RowsAreTyped' BY DEF IInv, RowsAreTyped
<1>2. \A a \in Administrator : Sound(mapping'[a], a, requests')
  <2> SUFFICES ASSUME NEW a \in Administrator PROVE Sound(mapping'[a], a, requests')
    OBVIOUS
  <2>1. Sound(mapping[a], a, requests) BY DEF IInv, CommandsAreSound
  <2>2. QED BY <2>1, SoundStays
<1>3. CommandsAreSound' BY <1>2 DEF CommandsAreSound, Sound
<1>4. \A k \in MapKey : Sensitive(k)' <=> Sensitive(k) BY DEF Sensitive, RolesOf
<1>5. QED BY <1>1, <1>3, <1>4, StepKeeps

LEMMA DisableSwitchesOff ==
  ASSUME IInv, NEW keys, Disable(keys)
  PROVE  /\ mappings' \in [MapKey -> Mapping]
         /\ \A k \in MapKey : /\ mappings'[k].signed = mappings[k].signed
                              /\ InUse(mappings'[k]) => InUse(mappings[k])
<1>1. \A k \in MapKey : /\ [mappings[k] EXCEPT !.enabled = FALSE] \in Mapping
                        /\ [mappings[k] EXCEPT !.enabled = FALSE].signed = mappings[k].signed
                        /\ ~InUse([mappings[k] EXCEPT !.enabled = FALSE])
  BY DEF IInv, RowsAreTyped, Mapping, InUse
<1>2. /\ DOMAIN mappings' = MapKey
      /\ \A k \in MapKey : mappings'[k] \in {mappings[k], [mappings[k] EXCEPT !.enabled = FALSE]}
  BY DEF Disable
<1>3. mappings' = [k \in MapKey |-> mappings'[k]] BY <1>2 DEF Disable
<1>4. \A k \in MapKey : mappings[k] \in Mapping BY DEF IInv, RowsAreTyped
<1>5. \A k \in MapKey : /\ mappings'[k] \in Mapping
                        /\ mappings'[k].signed = mappings[k].signed
                        /\ InUse(mappings'[k]) => InUse(mappings[k])
  <2> SUFFICES ASSUME NEW k \in MapKey
               PROVE  /\ mappings'[k] \in Mapping /\ mappings'[k].signed = mappings[k].signed
                      /\ InUse(mappings'[k]) => InUse(mappings[k])
    OBVIOUS
  <2>1. CASE mappings'[k] = mappings[k] BY <1>4, <2>1
  <2>2. CASE mappings'[k] = [mappings[k] EXCEPT !.enabled = FALSE] BY <1>1, <2>2
  <2>3. QED BY <1>2, <2>1, <2>2
<1>6. mappings' \in [MapKey -> Mapping] BY <1>3, <1>5
<1>7. QED BY <1>5, <1>6

LEMMA NothingGrows == \A rows : Grows(rows, rows)
  BY DEF Grows

-----------------------------------------------------------------------------

LEMMA UpsetsKeep ==
  ASSUME IInv,
         \/ \E g \in MapGuild : RemoveGuild(g) \/ ChangeGuild(g) \/ \E live \in BOOLEAN : RegisterGuild(g, live)
         \/ \E r \in MapRole : DeleteRole(r) \/ DisableMappingsOf(r)
         \/ Validation
         \/ UNCHANGED mappingVars
  PROVE  IInv'
<1>1. /\ UNCHANGED <<mapping, protection, requests, staleSigns>>
      /\ UNCHANGED mappings \/ \E keys : Disable(keys)
  <2>1. CASE \E g \in MapGuild : RemoveGuild(g)
    BY <2>1 DEF RemoveGuild, Upset, NoHistory
  <2>2. CASE \E g \in MapGuild : ChangeGuild(g) \/ \E live \in BOOLEAN : RegisterGuild(g, live)
    BY <2>2 DEF ChangeGuild, RegisterGuild, Upset, NoHistory
  <2>3. CASE \E r \in MapRole : DeleteRole(r)
    BY <2>3 DEF DeleteRole, Upset, NoHistory
  <2>4. CASE \E r \in MapRole : DisableMappingsOf(r)
    BY <2>4 DEF DisableMappingsOf, NoHistory
  <2>5. CASE Validation
    BY <2>5 DEF Validation, BeginValidation, CheckMapping, NoUpset, NoHistory
  <2>6. CASE UNCHANGED mappingVars BY <2>6 DEF mappingVars
  <2>7. QED BY <2>1, <2>2, <2>3, <2>4, <2>5, <2>6
<1>2. /\ mappings' \in [MapKey -> Mapping]
      /\ \A k \in MapKey : /\ mappings'[k].signed = mappings[k].signed
                           /\ InUse(mappings'[k]) => InUse(mappings[k])
  <2>1. CASE UNCHANGED mappings BY <2>1 DEF IInv, RowsAreTyped
  <2>2. CASE \E keys : Disable(keys) BY <2>2, DisableSwitchesOff
  <2>3. QED BY <1>1, <2>1, <2>2
<1>3. requests' \in Seq(Request) /\ Grows(requests, requests')
  BY <1>1, NothingGrows DEF IInv, RowsAreTyped
<1>4. QED BY <1>1, <1>2, <1>3, SwitchingOffKeeps

LEMMA RequestExpiresKeeps ==
  ASSUME IInv, NEW i \in DOMAIN requests, RequestExpires(i)
  PROVE  IInv'
<1>1. requests' = [requests EXCEPT ![i] = [requests[i] EXCEPT !.status = "EXPIRED"]]
  BY DEF RequestExpires
<1>2. requests \in Seq(Request) /\ requests[i] \in Request BY DEF IInv, RowsAreTyped
<1>3. /\ [requests[i] EXCEPT !.status = "EXPIRED"] \in Request
      /\ [requests[i] EXCEPT !.status = "EXPIRED"].mapping = requests[i].mapping
      /\ [requests[i] EXCEPT !.status = "EXPIRED"].by = requests[i].by
      /\ [requests[i] EXCEPT !.status = "EXPIRED"].votes = requests[i].votes
  BY <1>2 DEF Request
<1>4. requests' \in Seq(Request) BY <1>1, <1>2, <1>3
<1>5. Grows(requests, requests') BY <1>1, <1>2, <1>3 DEF Grows
<1>6. UNCHANGED <<mapping, mappings, protection, staleSigns>>
  BY DEF RequestExpires, NoUpset, NoHistory
<1>7. QED BY <1>4, <1>5, <1>6, SwitchingOffKeeps DEF IInv, RowsAreTyped

\* A role that comes under protection makes what is enabled on it stale.
LEMMA ProtectKeeps ==
  ASSUME IInv, NEW r \in MapRole, NEW lvl \in ProtectionLevel, Protect(r, lvl)
  PROVE  IInv'
<1>1. /\ UNCHANGED <<mappings, requests, mapping>>
      /\ staleSigns' = staleSigns \cup {k \in Enabled : r \in RolesOf(k)}
      /\ protection' = [protection EXCEPT ![r] = lvl]
  BY DEF Protect, Upset
<1>2. RowsAreTyped' BY <1>1 DEF IInv, RowsAreTyped
<1>3. CommandsAreSound' BY <1>1 DEF IInv, CommandsAreSound, Sound
<1>4. Grows(requests, requests') BY <1>1, NothingGrows
<1>5. \A k \in MapKey \ staleSigns' : InUse(mappings'[k]) /\ Sensitive(k)' =>
          k \notin staleSigns /\ InUse(mappings[k]) /\ Sensitive(k)
  <2> SUFFICES ASSUME NEW k \in MapKey \ staleSigns', InUse(mappings'[k]), Sensitive(k)'
               PROVE  k \notin staleSigns /\ InUse(mappings[k]) /\ Sensitive(k)
    OBVIOUS
  <2>1. k \notin staleSigns /\ InUse(mappings[k]) BY <1>1
  <2>2. r \notin RolesOf(k) BY <1>1, <2>1 DEF Enabled, InUse
  <2>3. PICK q \in RolesOf(k) : protection'[q] = TwoPerson BY DEF Sensitive, RolesOf
  <2>4. protection[q] = TwoPerson BY <1>1, <2>2, <2>3
  <2>5. QED BY <2>1, <2>3, <2>4 DEF Sensitive
<1>6. QED BY <1>1, <1>2, <1>3, <1>4, <1>5, StepKeeps

-----------------------------------------------------------------------------

\* A command that begins writes nothing yet.
LEMMA BeginsKeeps ==
  ASSUME IInv, NEW a \in Administrator, NEW command, Begins(a, command), Sound(command, a, requests)
  PROVE  IInv'
<1>1. /\ UNCHANGED <<mappings, requests, protection, staleSigns>>
      /\ mapping' = [mapping EXCEPT ![a] = command]
  BY DEF Begins, NoUpset, NoHistory
<1>2. RowsAreTyped' BY <1>1 DEF IInv, RowsAreTyped
<1>3. \A b \in Administrator : mapping'[b] \in {mapping[b], IF b = a THEN command ELSE mapping[b]}
  BY <1>1 DEF IInv, RowsAreTyped
<1>4. \A b \in Administrator : Sound(mapping'[b], b, requests')
  <2> SUFFICES ASSUME NEW b \in Administrator PROVE Sound(mapping'[b], b, requests)
    BY <1>1
  <2>1. Sound(mapping[b], b, requests) BY DEF IInv, CommandsAreSound
  <2>2. CASE b = a BY <1>3, <2>1, <2>2
  <2>3. CASE b # a BY <1>3, <2>1, <2>3
  <2>4. QED BY <2>2, <2>3
<1>5. CommandsAreSound' BY <1>4 DEF CommandsAreSound, Sound
<1>6. \A k \in MapKey : Sensitive(k)' <=> Sensitive(k) BY <1>1 DEF Sensitive, RolesOf
<1>7. Grows(requests, requests') BY <1>1, NothingGrows
<1>8. QED BY <1>1, <1>2, <1>5, <1>6, <1>7, StepKeeps

LEMMA ReadingIsSound ==
  ASSUME IInv, NEW a \in Administrator, NEW k \in MapKey, NEW row \in Mapping,
         NEW op \in {"create", "update", "enable", "disable", "delete"},
         op = "create" => ~row.signed /\ (Sensitive(k) => ~row.enabled),
         op = "enable" => (Sensitive(k) => mappings[k].signed),
         op = "disable" => ~row.enabled
  PROVE  Sound(Reading(op, k, row), a, requests)
  BY DEF Sound, Reading

LEMMA BeginningsKeep ==
  ASSUME IInv, NEW a \in Administrator, NEW k \in MapKey, NEW twoWay \in BOOLEAN, NEW live \in BOOLEAN,
         NEW wanted \in BOOLEAN,
         \/ BeginCreate(a, k, twoWay, live, wanted) \/ BeginUpdate(a, k, twoWay, live)
         \/ BeginEnable(a, k) \/ BeginDisable(a, k) \/ BeginDelete(a, k)
  PROVE  IInv'
<1>1. mappings[k] \in Mapping BY DEF IInv, RowsAreTyped
<1>2. CASE BeginCreate(a, k, twoWay, live, wanted)
  <2> DEFINE row == [state |-> "live", twoWay |-> twoWay, signed |-> FALSE,
                     enabled |-> wanted /\ live /\ ~Sensitive(k)]
  <2>1. Begins(a, Reading("create", k, row)) BY <1>2 DEF BeginCreate
  <2>2. Sensitive(k) \in BOOLEAN BY DEF Sensitive
  <2>3. (wanted /\ live /\ ~Sensitive(k)) \in BOOLEAN OBVIOUS
  <2>4. row \in Mapping /\ ~row.signed /\ (Sensitive(k) => ~row.enabled) BY <2>3 DEF Mapping
  <2> HIDE DEF row
  <2>5. Sound(Reading("create", k, row), a, requests) BY <2>4, ReadingIsSound
  <2>6. QED BY <2>1, <2>5, BeginsKeeps
<1>3. CASE BeginUpdate(a, k, twoWay, live)
  <2> DEFINE row == [mappings[k] EXCEPT !.twoWay = twoWay]
  <2>1. Begins(a, Reading("update", k, row)) BY <1>3 DEF BeginUpdate
  <2>2. row \in Mapping BY <1>1 DEF Mapping
  <2> HIDE DEF row
  <2>3. Sound(Reading("update", k, row), a, requests) BY <2>2, ReadingIsSound
  <2>4. QED BY <2>1, <2>3, BeginsKeeps
<1>4. CASE BeginEnable(a, k)
  <2> DEFINE row == [mappings[k] EXCEPT !.enabled = TRUE]
  <2>1. Begins(a, Reading("enable", k, row)) /\ (Sensitive(k) => mappings[k].signed)
    BY <1>4 DEF BeginEnable
  <2>2. row \in Mapping BY <1>1 DEF Mapping
  <2> HIDE DEF row
  <2>3. Sound(Reading("enable", k, row), a, requests) BY <2>1, <2>2, ReadingIsSound
  <2>4. QED BY <2>1, <2>3, BeginsKeeps
<1>5. CASE BeginDisable(a, k)
  <2> DEFINE row == [mappings[k] EXCEPT !.enabled = FALSE]
  <2>1. Begins(a, Reading("disable", k, row)) BY <1>5 DEF BeginDisable
  <2>2. row \in Mapping /\ ~row.enabled BY <1>1 DEF Mapping
  <2> HIDE DEF row
  <2>3. Sound(Reading("disable", k, row), a, requests) BY <2>2, ReadingIsSound
  <2>4. QED BY <2>1, <2>3, BeginsKeeps
<1>6. CASE BeginDelete(a, k)
  <2> DEFINE row == [mappings[k] EXCEPT !.enabled = FALSE, !.state = "deleted"]
  <2>1. Begins(a, Reading("delete", k, row)) BY <1>6 DEF BeginDelete
  <2>2. row \in Mapping BY <1>1 DEF Mapping
  <2> HIDE DEF row
  <2>3. Sound(Reading("delete", k, row), a, requests) BY <2>2, ReadingIsSound
  <2>4. QED BY <2>1, <2>3, BeginsKeeps
<1>7. QED BY <1>2, <1>3, <1>4, <1>5, <1>6

\* Nobody votes on what he asked for himself.
LEMMA BeginVoteKeeps ==
  ASSUME IInv, NEW a \in Administrator, NEW i \in DOMAIN requests, NEW approve \in BOOLEAN,
         BeginVote(a, i, approve)
  PROVE  IInv'
<1> DEFINE command == [op |-> "vote", request |-> i, approve |-> approve]
<1>1. Begins(a, command) BY DEF BeginVote
<1>2. Sound(command, a, requests) BY DEF BeginVote, MayDecide, Sound
<1> HIDE DEF command
<1>3. QED BY <1>1, <1>2, BeginsKeeps

-----------------------------------------------------------------------------

\* The command that ends leaves the others sound.
LEMMA EndingIsSound ==
  ASSUME IInv, NEW a \in Administrator, mapping' = [mapping EXCEPT ![a] = AtRest],
         Grows(requests, requests')
  PROVE  CommandsAreSound' /\ DOMAIN mapping' = Administrator
<1>1. \A b \in Administrator : Sound(mapping'[b], b, requests')
  <2> SUFFICES ASSUME NEW b \in Administrator PROVE Sound(mapping'[b], b, requests')
    OBVIOUS
  <2>1. CASE b = a
    <3>1. mapping'[b] = AtRest BY <2>1 DEF IInv, RowsAreTyped
    <3>2. QED BY <3>1 DEF Sound, AtRest
  <2>2. CASE b # a
    <3>1. mapping'[b] = mapping[b] BY <2>2 DEF IInv, RowsAreTyped
    <3>2. Sound(mapping[b], b, requests) BY DEF IInv, CommandsAreSound
    <3>3. QED BY <3>1, <3>2, SoundStays
  <2>3. QED BY <2>1, <2>2
<1>2. QED BY <1>1 DEF IInv, RowsAreTyped, CommandsAreSound, Sound

\* What a command makes of its row: no signature, and no use that its checks,
\* if they still hold, have not found in order.
LEMMA WrittenInOrder ==
  ASSUME IInv, NEW a \in Administrator, NEW c, c = mapping[a],
         c.op \in {"create", "update", "enable", "disable", "delete"}
  PROVE  /\ c.key \in MapKey
         /\ Written(c) \in Mapping
         /\ Written(c).signed => mappings[c.key].signed
         /\ InUse(Written(c)) /\ c.sensitive => InUse(mappings[c.key]) \/ c.before.signed
<1>1. Sound(c, a, requests) BY DEF IInv, CommandsAreSound
<1>2. c.key \in MapKey /\ c.row \in Mapping BY <1>1 DEF Sound
<1>3. mappings[c.key] \in Mapping BY <1>2 DEF IInv, RowsAreTyped
<1>4. CASE c.op = "create"
  <2>1. Written(c) = c.row BY <1>4 DEF Written
  <2>2. QED BY <1>1, <1>2, <1>4, <2>1 DEF Sound, InUse
<1>5. CASE c.op = "update"
  <2>1. Written(c) = [mappings[c.key] EXCEPT !.twoWay = c.row.twoWay] BY <1>5 DEF Written
  <2>2. QED BY <1>2, <1>3, <2>1 DEF Mapping, InUse
<1>6. CASE c.op \in {"enable", "disable"}
  <2>1. Written(c) = [mappings[c.key] EXCEPT !.enabled = c.row.enabled] BY <1>6 DEF Written
  <2>2. Written(c) \in Mapping /\ Written(c).signed = mappings[c.key].signed
    BY <1>2, <1>3, <2>1 DEF Mapping
  <2>3. Written(c).enabled = c.row.enabled BY <1>3, <2>1 DEF Mapping
  <2>4. QED BY <1>1, <1>2, <1>6, <2>2, <2>3 DEF Sound, InUse
<1>7. CASE c.op = "delete"
  <2>1. Written(c) = [mappings[c.key] EXCEPT !.enabled = FALSE, !.state = "deleted"] BY <1>7 DEF Written
  <2>2. QED BY <1>2, <1>3, <2>1 DEF Mapping, InUse
<1>8. QED BY <1>4, <1>5, <1>6, <1>7

LEMMA CommitMappingKeeps ==
  ASSUME IInv, NEW a \in Administrator, CommitMapping(a)
  PROVE  IInv'
<1> DEFINE c == mapping[a]
           asked == [mapping |-> c.key, by |-> a, status |-> "PENDING", votes |-> {}]
<1>1. /\ c.op \in {"create", "update", "enable", "disable", "delete"}
      /\ mapping' = [mapping EXCEPT ![a] = AtRest]
      /\ UNCHANGED protection
      /\ \/ UNCHANGED <<mappings, requests, staleSigns>>
         \/ /\ mappings' = [mappings EXCEPT ![c.key] = Written(c)]
            /\ requests' \in {requests, Append(requests, asked)}
            /\ staleSigns' = IF SignsStale(c) THEN staleSigns \cup {c.key} ELSE staleSigns
  BY DEF CommitMapping, NoUpset, NoHistory
<1>2. /\ c.key \in MapKey /\ Written(c) \in Mapping
      /\ Written(c).signed => mappings[c.key].signed
      /\ InUse(Written(c)) /\ c.sensitive => InUse(mappings[c.key]) \/ c.before.signed
  BY <1>1, WrittenInOrder
<1>3. /\ requests' \in Seq(Request) /\ Grows(requests, requests')
  <2>1. requests \in Seq(Request) BY DEF IInv, RowsAreTyped
  <2>2. asked \in Request BY <1>2 DEF Request
  <2> HIDE DEF asked
  <2>3. Append(requests, asked) \in Seq(Request) BY <2>1, <2>2
  <2>4. Grows(requests, Append(requests, asked)) BY <2>1, <2>2 DEF Grows
  <2>5. QED BY <1>1, <2>1, <2>3, <2>4, NothingGrows
<1>4. \A k \in MapKey : Sensitive(k)' <=> Sensitive(k) BY <1>1 DEF Sensitive, RolesOf
<1>5. CommandsAreSound' /\ DOMAIN mapping' = Administrator BY <1>1, <1>3, EndingIsSound
<1>6. CASE UNCHANGED <<mappings, staleSigns>>
  <2>1. RowsAreTyped' BY <1>3, <1>5, <1>6 DEF IInv, RowsAreTyped
  <2>2. QED BY <1>3, <1>4, <1>5, <1>6, <2>1, StepKeeps
<1>7. CASE /\ mappings' = [mappings EXCEPT ![c.key] = Written(c)]
           /\ staleSigns' = IF SignsStale(c) THEN staleSigns \cup {c.key} ELSE staleSigns
  <2>1. /\ mappings' \in [MapKey -> Mapping] /\ mappings'[c.key] = Written(c)
        /\ \A k \in MapKey \ {c.key} : mappings'[k] = mappings[k]
    BY <1>2, <1>7 DEF IInv, RowsAreTyped
  <2>2. RowsAreTyped' BY <1>3, <1>5, <2>1 DEF RowsAreTyped
  <2>3. \A k \in MapKey : mappings'[k].signed => mappings[k].signed BY <1>2, <2>1
  <2>4. \A k \in MapKey \ staleSigns' : InUse(mappings'[k]) /\ Sensitive(k)' =>
            \/ k \notin staleSigns /\ InUse(mappings[k]) /\ Sensitive(k)
            \/ SignedByAnother(k, requests')
    <3> SUFFICES ASSUME NEW k \in MapKey \ staleSigns', InUse(mappings'[k]), Sensitive(k)',
                        ~(k \notin staleSigns /\ InUse(mappings[k]) /\ Sensitive(k))
                 PROVE  SignedByAnother(k, requests')
      OBVIOUS
    <3>1. k \notin staleSigns /\ Sensitive(k) BY <1>4, <1>7
    <3>2. k = c.key BY <2>1, <3>1
    <3>3. ~SignsStale(c) BY <1>7, <3>2
    <3>4. Sensitive(c.key) = c.sensitive /\ mappings[c.key] = c.before BY <3>3 DEF SignsStale
    <3>5. InUse(Written(c)) BY <2>1, <3>2
    <3>6. mappings[k].signed BY <1>2, <3>1, <3>2, <3>4, <3>5
    <3>7. SignedByAnother(k, requests) BY <3>6 DEF IInv, SignaturesAreVotes
    <3>8. QED BY <1>3, <3>7, SignatureStays
  <2>5. QED BY <1>3, <1>5, <2>2, <2>3, <2>4, StepKeeps
<1>8. QED BY <1>1, <1>6, <1>7

\* A vote stays with its request, and so does everything else about the request.
LEMMA VotedGrows ==
  ASSUME NEW rows \in Seq(Request), NEW i \in DOMAIN rows, NEW status \in {"APPROVED", "REJECTED"},
         NEW vote \in [voter : Administrator, approve : BOOLEAN], NEW new,
         new = [rows EXCEPT ![i] = [rows[i] EXCEPT !.votes = rows[i].votes \cup {vote}, !.status = status]]
  PROVE  /\ new \in Seq(Request) /\ Grows(rows, new)
         /\ vote.approve /\ vote.voter # rows[i].by => SignedByAnother(rows[i].mapping, new)
<1> DEFINE voted == [rows[i] EXCEPT !.votes = rows[i].votes \cup {vote}, !.status = status]
<1>1. rows[i] \in Request OBVIOUS
<1>2. /\ voted \in Request /\ voted.mapping = rows[i].mapping /\ voted.by = rows[i].by
      /\ voted.votes = rows[i].votes \cup {vote}
  BY <1>1 DEF Request
<1>3. new = [rows EXCEPT ![i] = voted] OBVIOUS
<1> HIDE DEF voted
<1>4. new \in Seq(Request) /\ DOMAIN new = DOMAIN rows BY <1>2, <1>3
<1>5. new[i] = voted /\ \A j \in DOMAIN rows \ {i} : new[j] = rows[j] BY <1>3
<1>6. Grows(rows, new) BY <1>2, <1>4, <1>5 DEF Grows
<1>7. vote.approve /\ vote.voter # rows[i].by => SignedByAnother(rows[i].mapping, new)
  BY <1>2, <1>4, <1>5 DEF SignedByAnother
<1>8. QED BY <1>4, <1>6, <1>7

\* A signature comes with the vote of somebody who did not ask.
LEMMA CommitVoteKeeps ==
  ASSUME IInv, NEW a \in Administrator, CommitVote(a)
  PROVE  IInv'
<1> DEFINE c == mapping[a]
           i == c.request
           r == requests[i]
           vote == [voter |-> a, approve |-> c.approve]
           status == IF c.approve THEN "APPROVED" ELSE "REJECTED"
           signed == [mappings EXCEPT ![r.mapping] = [mappings[r.mapping] EXCEPT !.signed = TRUE]]
<1>1. c.op = "vote" /\ mapping' = [mapping EXCEPT ![a] = AtRest] /\ UNCHANGED <<protection, staleSigns>>
  BY DEF CommitVote, NoUpset, NoHistory
<1>2. \/ UNCHANGED <<requests, mappings>>
      \/ /\ requests' = [requests EXCEPT ![i] = [r EXCEPT !.votes = r.votes \cup {vote}, !.status = status]]
         /\ mappings' = IF c.approve THEN signed ELSE mappings
  BY DEF CommitVote
<1>3. i \in DOMAIN requests /\ r.by # a /\ c.approve \in BOOLEAN
  <2>1. Sound(c, a, requests) BY DEF IInv, CommandsAreSound
  <2>2. QED BY <1>1, <2>1 DEF Sound
<1>4. \A k \in MapKey : Sensitive(k)' <=> Sensitive(k) BY <1>1 DEF Sensitive, RolesOf
<1>5. requests \in Seq(Request) /\ mappings \in [MapKey -> Mapping] BY DEF IInv, RowsAreTyped
<1>6. r.mapping \in MapKey
  <2>1. r \in Request BY <1>3, <1>5
  <2>2. QED BY <2>1 DEF Request
<1>7. /\ vote \in [voter : Administrator, approve : BOOLEAN] /\ vote.approve = c.approve /\ vote.voter = a
      /\ status \in {"APPROVED", "REJECTED"}
  BY <1>3
<1>8. CASE UNCHANGED <<requests, mappings>>
  <2>1. Grows(requests, requests') BY <1>8, NothingGrows
  <2>2. CommandsAreSound' /\ DOMAIN mapping' = Administrator BY <1>1, <2>1, EndingIsSound
  <2>3. RowsAreTyped' BY <1>5, <1>8, <2>2 DEF RowsAreTyped
  <2>4. QED BY <1>1, <1>4, <1>8, <2>1, <2>2, <2>3, StepKeeps
<1>9. CASE /\ requests' = [requests EXCEPT ![i] = [r EXCEPT !.votes = r.votes \cup {vote}, !.status = status]]
           /\ mappings' = IF c.approve THEN signed ELSE mappings
  <2>1. /\ \A k \in MapKey : /\ [mappings[k] EXCEPT !.signed = TRUE] \in Mapping
                             /\ InUse([mappings[k] EXCEPT !.signed = TRUE]) <=> InUse(mappings[k])
    BY <1>5 DEF Mapping, InUse
  <2>2. /\ signed \in [MapKey -> Mapping]
        /\ \A k \in MapKey : /\ InUse(signed[k]) <=> InUse(mappings[k])
                             /\ signed[k].signed => mappings[k].signed \/ k = r.mapping
    BY <1>5, <1>6, <2>1
  <2> HIDE DEF vote, status, signed
  <2>3. /\ requests' \in Seq(Request) /\ Grows(requests, requests')
        /\ vote.approve /\ vote.voter # r.by => SignedByAnother(r.mapping, requests')
    BY <1>3, <1>5, <1>7, <1>9, VotedGrows
  <2>4. /\ mappings' \in [MapKey -> Mapping]
        /\ \A k \in MapKey : /\ InUse(mappings'[k]) <=> InUse(mappings[k])
                             /\ mappings'[k].signed => mappings[k].signed \/ (c.approve /\ k = r.mapping)
    BY <1>3, <1>5, <1>9, <2>2
  <2>5. \A k \in MapKey : mappings'[k].signed => mappings[k].signed \/ SignedByAnother(k, requests')
    BY <1>3, <1>7, <2>3, <2>4
  <2>6. CommandsAreSound' /\ DOMAIN mapping' = Administrator BY <1>1, <2>3, EndingIsSound
  <2>7. RowsAreTyped' BY <2>3, <2>4, <2>6 DEF RowsAreTyped
  <2>8. QED BY <1>1, <1>4, <2>3, <2>4, <2>5, <2>6, <2>7, StepKeeps
<1>10. QED BY <1>2, <1>8, <1>9

-----------------------------------------------------------------------------

LEMMA NextIInv == IInv /\ [MappingsNext]_mappingVars => IInv'
<1> SUFFICES ASSUME IInv, [MappingsNext]_mappingVars PROVE IInv'
  OBVIOUS
<1>1. CASE \E a \in Administrator : Command(a)
  <2> PICK a \in Administrator : Command(a) BY <1>1
  <2>1. CASE \E k \in MapKey : BeginEnable(a, k) \/ BeginDisable(a, k) \/ BeginDelete(a, k)
    BY <2>1, BeginningsKeep
  <2>2. CASE \E k \in MapKey, twoWay, live \in BOOLEAN :
                 \/ BeginUpdate(a, k, twoWay, live)
                 \/ \E wanted \in BOOLEAN : BeginCreate(a, k, twoWay, live, wanted)
    BY <2>2, BeginningsKeep
  <2>3. CASE \E i \in DOMAIN requests, approve \in BOOLEAN : BeginVote(a, i, approve)
    BY <2>3, BeginVoteKeeps
  <2>4. CASE CommitMapping(a) BY <2>4, CommitMappingKeeps
  <2>5. CASE CommitVote(a) BY <2>5, CommitVoteKeeps
  <2>6. QED BY <2>1, <2>2, <2>3, <2>4, <2>5 DEF Command
<1>2. CASE \E i \in DOMAIN requests : RequestExpires(i)
  BY <1>2, RequestExpiresKeeps
<1>3. CASE \E r \in MapRole, lvl \in ProtectionLevel : Protect(r, lvl)
  BY <1>3, ProtectKeeps
<1>4. CASE \/ \E g \in MapGuild : RemoveGuild(g) \/ ChangeGuild(g) \/ \E live \in BOOLEAN : RegisterGuild(g, live)
           \/ \E r \in MapRole : DeleteRole(r) \/ DisableMappingsOf(r)
           \/ Validation
           \/ UNCHANGED mappingVars
  BY <1>4, UpsetsKeep
<1>5. QED BY <1>1, <1>2, <1>3, <1>4 DEF MappingsNext

\* What is enabled on a role under two-person protection has the vote of
\* somebody else than the one who asked for it, whatever commands, votes and
\* changes of protection overlap; excepted is what was written on an outdated
\* reading of the protection (mapping-service.js, approval-service.js).
THEOREM SensitiveMappingsAreSigned == MappingsSpec => []SensitiveSigned
<1>1. IInv => SensitiveSigned BY DEF IInv
<1>2. QED BY InitIInv, NextIInv, <1>1, PTL DEF MappingsSpec

-----------------------------------------------------------------------------

\* The edges of a mapping lead from one of its roles to the other.
OwnEdges(edges, k) ==
    \A e \in edges : e.of = k => \/ e.from = SourceOf[k] /\ e.to = TargetOf[k]
                                 \/ e.from = TargetOf[k] /\ e.to = SourceOf[k]

Without(edges, k) == {e \in edges : e.of # k}

LEMMA EdgesLead ==
  ASSUME NEW edges, edges \subseteq Edge, NEW k \in MapKey
  PROVE  /\ SourceOf[k] \in MapRole /\ TargetOf[k] \in MapRole
         /\ \A e \in edges : e.of \in MapKey /\ e.from \in MapRole /\ e.to \in MapRole
  BY MappingsConstants DEF Edge

\* What a search can visit: roles reached by edges of the candidate only, and
\* roles on whose way there was another mapping.
LEMMA SearchFails ==
  ASSUME NEW k \in MapKey, NEW edges, edges \subseteq Edge, ~ClosesLoop(edges, k)
  PROVE  \E early, late \in SUBSET MapRole :
             /\ TargetOf[k] \in early /\ SourceOf[k] \notin late
             /\ \A e \in edges : /\ e.from \in early => IF e.of = k THEN e.to \in early ELSE e.to \in late
                                 /\ e.from \in late => e.to \in late
<1>1. PICK visited \in SUBSET (MapRole \X BOOLEAN) :
          Visits(edges, k, visited) /\ <<SourceOf[k], TRUE>> \notin visited
  BY DEF ClosesLoop
<1> DEFINE early == {r \in MapRole : <<r, FALSE>> \in visited}
           late == {r \in MapRole : <<r, TRUE>> \in visited}
<1>2. /\ <<TargetOf[k], FALSE>> \in visited
      /\ \A e \in edges, used \in BOOLEAN :
             <<e.from, used>> \in visited => <<e.to, used \/ e.of # k>> \in visited
  BY <1>1 DEF Visits
<1>3. TargetOf[k] \in early /\ SourceOf[k] \notin late BY <1>1, <1>2, EdgesLead
<1>4. ASSUME NEW e \in edges
      PROVE  /\ e.from \in early => IF e.of = k THEN e.to \in early ELSE e.to \in late
             /\ e.from \in late => e.to \in late
  <2>1. e.to \in MapRole BY EdgesLead
  <2>2. (FALSE \/ e.of # k) = (e.of # k) /\ (TRUE \/ e.of # k) = TRUE OBVIOUS
  <2>3. e.from \in early => <<e.to, e.of # k>> \in visited
    <3>1. <<e.from, FALSE>> \in visited => <<e.to, FALSE \/ e.of # k>> \in visited BY <1>2
    <3>2. QED BY <2>2, <3>1
  <2>4. e.from \in late => <<e.to, TRUE>> \in visited
    <3>1. <<e.from, TRUE>> \in visited => <<e.to, TRUE \/ e.of # k>> \in visited BY <1>2
    <3>2. QED BY <2>2, <3>1
  <2>5. e.of = k => (e.of # k) = FALSE OBVIOUS
  <2>6. e.of # k => (e.of # k) = TRUE OBVIOUS
  <2>7. QED BY <2>1, <2>3, <2>4, <2>5, <2>6
<1>5. QED BY <1>3, <1>4

\* A closed way that needs the candidate, and on which there are two other
\* edges, is one that the search finds.
LEMMA WayAround ==
  ASSUME NEW k \in MapKey, NEW edges, edges \subseteq Edge, OwnEdges(edges, k),
         NEW e \in Without(edges, k), NEW f \in Without(edges, k),
         Reaches(edges, e.to, f.from), Reaches(edges, f.to, e.from),
         ~Reaches(Without(edges, k), e.to, f.from)
  PROVE  ClosesLoop(edges, k)
<1> SUFFICES ASSUME ~ClosesLoop(edges, k) PROVE FALSE
  OBVIOUS
<1> DEFINE S == SourceOf[k]
           T == TargetOf[k]
           near == {r \in MapRole : Reaches(Without(edges, k), e.to, r)}
           far == {r \in MapRole : Reaches(edges, T, r)}
<1>1. PICK early, late \in SUBSET MapRole :
          /\ T \in early /\ S \notin late
          /\ \A x \in edges : /\ x.from \in early => IF x.of = k THEN x.to \in early ELSE x.to \in late
                              /\ x.from \in late => x.to \in late
  BY SearchFails
<1>2. e \in edges /\ f \in edges /\ e.of # k /\ f.of # k BY DEF Without
<1>3. \A x \in edges : x.from \in MapRole /\ x.to \in MapRole BY EdgesLead
<1>4. e.to \in near /\ \A x \in Without(edges, k) : x.from \in near => x.to \in near
  BY <1>2, <1>3 DEF Reaches, Without
<1>5. T \in far /\ \A x \in edges : x.from \in far => x.to \in far
  BY <1>3, EdgesLead DEF Reaches
<1>6. f.from \notin near BY DEF Reaches
<1>7. \E x \in edges : x.of = k /\ x.from \in near
  <2> SUFFICES ASSUME \A x \in edges : x.from \in near => x.of # k PROVE FALSE
    OBVIOUS
  <2>1. \A x \in edges : x.from \in near => x.to \in near BY <1>4 DEF Without
  <2>2. QED BY <1>4, <1>6, <2>1 DEF Reaches
<1>8. f.from \in far
  <2>1. CASE S \in near \/ S \in far
    <3>1. ASSUME NEW x \in edges, x.from \in near \cup far PROVE x.to \in near \cup far
      <4>1. CASE x.of # k BY <1>4, <1>5, <3>1, <4>1 DEF Without
      <4>2. CASE x.of = k BY <1>5, <2>1, <3>1, <4>2 DEF OwnEdges
      <4>3. QED BY <4>1, <4>2
    <3>2. f.from \in near \cup far BY <1>3, <1>4, <3>1 DEF Reaches
    <3>3. QED BY <1>6, <3>2
  <2>2. CASE S \notin near /\ S \notin far
    <3>1. PICK x \in edges : x.of = k /\ x.from \in near BY <1>7
    <3>2. x.from = T /\ x.to = S BY <2>2, <3>1 DEF OwnEdges
    <3>3. QED BY <1>5, <2>2, <3>1, <3>2
  <2>3. QED BY <2>1, <2>2
<1>9. f.from \in early \cup late
  <2>1. \A x \in edges : x.from \in early \cup late => x.to \in early \cup late BY <1>1
  <2>2. Reaches(edges, T, f.from) BY <1>8
  <2>3. QED BY <1>1, <2>1, <2>2 DEF Reaches
<1>10. f.to \in late BY <1>1, <1>2, <1>9
<1>11. e.from \in late BY <1>1, <1>10 DEF Reaches
<1>12. e.to \in late BY <1>1, <1>2, <1>11
<1>13. near \subseteq late
  BY <1>1, <1>12 DEF Reaches, Without
<1>14. PICK x \in edges : x.of = k /\ x.from \in near BY <1>7
<1>15. x.to \in late BY <1>1, <1>13, <1>14
<1>16. QED BY <1>1, <1>13, <1>14, <1>15 DEF OwnEdges

\* A mapping in whose way the search finds nothing leaves untangled what was so
\* without it.
LEMMA SearchIsEnough ==
  ASSUME NEW k \in MapKey, NEW edges, edges \subseteq Edge, OwnEdges(edges, k),
         Untangled(Without(edges, k)), ~ClosesLoop(edges, k)
  PROVE  Untangled(edges)
<1> SUFFICES ASSUME NEW e \in edges, NEW f \in edges, e.of # f.of,
                    Reaches(edges, e.to, f.from), Reaches(edges, f.to, e.from)
             PROVE  FALSE
  BY DEF Untangled
<1>1. CASE e.of # k /\ f.of # k
  <2>1. e \in Without(edges, k) /\ f \in Without(edges, k) BY <1>1 DEF Without
  <2>2. \/ ~Reaches(Without(edges, k), e.to, f.from)
        \/ ~Reaches(Without(edges, k), f.to, e.from)
    BY <2>1 DEF Untangled
  <2>3. QED BY <2>1, <2>2, WayAround
<1>2. ASSUME NEW own \in edges, NEW other \in edges, own.of = k, other.of # k,
             Reaches(edges, own.to, other.from), Reaches(edges, other.to, own.from)
      PROVE  FALSE
  <2>1. PICK early, late \in SUBSET MapRole :
            /\ TargetOf[k] \in early /\ SourceOf[k] \notin late
            /\ \A x \in edges : /\ x.from \in early => IF x.of = k THEN x.to \in early ELSE x.to \in late
                                /\ x.from \in late => x.to \in late
    BY SearchFails
  <2>2. \A x \in edges : x.from \in early \cup late => x.to \in early \cup late BY <2>1
  <2>3. own.to \in early \cup late BY <1>2, <2>1, <2>2 DEF OwnEdges
  <2>4. other.from \in early \cup late BY <1>2, <2>1, <2>2, <2>3 DEF Reaches
  <2>5. other.to \in late BY <1>2, <2>1, <2>4
  <2>6. own.from \in late BY <1>2, <2>1, <2>5 DEF Reaches
  <2>7. own.to \in late BY <1>2, <2>1, <2>6
  <2>8. QED BY <1>2, <2>1, <2>6, <2>7 DEF OwnEdges
<1>3. QED BY <1>1, <1>2

LEMMA FewerEdges ==
  ASSUME NEW few, NEW many, few \subseteq many
  PROVE  /\ Untangled(many) => Untangled(few)
         /\ \A k \in MapKey : ClosesLoop(few, k) => ClosesLoop(many, k)
<1>1. \A from, to : Reaches(few, from, to) => Reaches(many, from, to) BY DEF Reaches
<1>2. \A k \in MapKey, visited \in SUBSET (MapRole \X BOOLEAN) :
          Visits(many, k, visited) => Visits(few, k, visited)
  BY DEF Visits
<1>3. QED BY <1>1, <1>2 DEF Untangled, ClosesLoop

LEMMA EdgesOfKeys ==
  ASSUME NEW keys \in SUBSET MapKey, NEW twoWays
  PROVE  /\ EdgesOf(keys, twoWays) \subseteq Edge
         /\ \A k \in MapKey : OwnEdges(EdgesOf(keys, twoWays), k)
         /\ \A e \in EdgesOf(keys, twoWays) : e.of \in keys
  BY MappingsConstants DEF EdgesOf, OwnEdges, Edge

\* Edges of fewer mappings, none of which has become two-way.
LEMMA EdgesOfFewer ==
  ASSUME NEW few \in SUBSET MapKey, NEW many \in SUBSET MapKey, NEW before, NEW after,
         few \subseteq many, few \cap after \subseteq before
  PROVE  EdgesOf(few, after) \subseteq EdgesOf(many, before)
  BY DEF EdgesOf

\* What the search of a command has found about the mappings it read.
Searched(c) ==
    /\ c.op \in {"create", "update", "enable"} =>
           /\ EdgesOf({c.key}, IF c.row.twoWay THEN {c.key} ELSE {}) \subseteq c.edges
           /\ \/ ~ClosesLoop(c.edges, c.key)
              \/ c.op = "update" /\ (c.before.enabled => c.row.twoWay = c.before.twoWay)
    /\ c.op = "enable" => c.row.twoWay = c.before.twoWay

CommandsHaveSearched == \A a \in Administrator : Searched(mapping[a])

LoopInv == IInv /\ CommandsHaveSearched /\ EnabledUntangled

LEMMA InitLoopInv == MappingsInit => LoopInv
<1> SUFFICES ASSUME MappingsInit PROVE LoopInv
  OBVIOUS
<1>1. CommandsHaveSearched BY DEF MappingsInit, CommandsHaveSearched, Searched, AtRest
<1>2. Untangled(EdgesOf({k \in MapKey : mappings[k].state = "live" /\ mappings[k].enabled},
                        {k \in MapKey : mappings[k].twoWay}))
  BY UntangledAtFirst DEF MappingsInit
<1>3. EdgesOf(Enabled \ staleLoops, TwoWays) \subseteq EdgesOf(Enabled, TwoWays)
  BY EdgesOfFewer DEF Enabled
<1>4. Untangled(EdgesOf(Enabled, TwoWays)) BY <1>2 DEF Enabled, TwoWays
<1>5. EnabledUntangled BY <1>3, <1>4, FewerEdges DEF EnabledUntangled
<1>6. QED BY <1>1, <1>5, InitIInv DEF LoopInv

\* Mappings that are enabled were so before, in the same directions.
LEMMA LessInUse ==
  ASSUME LoopInv, staleLoops \subseteq staleLoops',
         \A k \in MapKey \ staleLoops' :
             InUse(mappings'[k]) => InUse(mappings[k]) /\ (mappings'[k].twoWay => mappings[k].twoWay)
  PROVE  EnabledUntangled'
<1>1. /\ Enabled \ staleLoops \in SUBSET MapKey /\ (Enabled \ staleLoops)' \in SUBSET MapKey
      /\ (Enabled \ staleLoops)' \subseteq Enabled \ staleLoops
      /\ (Enabled \ staleLoops)' \cap TwoWays' \subseteq TwoWays
  BY DEF Enabled, TwoWays, InUse
<1>2. EdgesOf((Enabled \ staleLoops)', TwoWays') \subseteq EdgesOf(Enabled \ staleLoops, TwoWays)
  BY <1>1, EdgesOfFewer
<1>3. Untangled(EdgesOf((Enabled \ staleLoops)', TwoWays'))
  BY <1>2, FewerEdges DEF LoopInv, EnabledUntangled
<1>4. QED BY <1>3 DEF EnabledUntangled

\* What a step makes of one command's reading.
LEMMA OneSearches ==
  ASSUME LoopInv, NEW a \in Administrator, NEW command, Searched(command),
         mapping' = [mapping EXCEPT ![a] = command]
  PROVE  CommandsHaveSearched'
<1>1. ASSUME NEW b \in Administrator PROVE Searched(mapping'[b])
  <2>1. mapping'[b] = IF b = a THEN command ELSE mapping[b] BY DEF LoopInv, IInv, RowsAreTyped
  <2>2. Searched(mapping[b]) BY DEF LoopInv, CommandsHaveSearched
  <2>3. QED BY <2>1, <2>2
<1>2. QED BY <1>1 DEF CommandsHaveSearched

LEMMA BeginningSearches ==
  ASSUME LoopInv, NEW a \in Administrator, NEW k \in MapKey, NEW row,
         NEW op \in {"create", "update", "enable", "disable", "delete"},
         Begins(a, Reading(op, k, row)),
         op \in {"create", "update", "enable"} =>
             \/ ~ClosesLoop(EdgesWith(k, row.twoWay), k)
             \/ op = "update" /\ (mappings[k].enabled => row.twoWay = mappings[k].twoWay),
         op = "enable" => row.twoWay = mappings[k].twoWay
  PROVE  CommandsHaveSearched' /\ EnabledUntangled'
<1>1. /\ mapping' = [mapping EXCEPT ![a] = Reading(op, k, row)]
      /\ UNCHANGED <<mappings, staleLoops>>
  BY DEF Begins, NoHistory
<1>2. EdgesOf({k}, IF row.twoWay THEN {k} ELSE {}) \subseteq EdgesWith(k, row.twoWay)
  <2>1. Enabled \cup {k} \in SUBSET MapKey BY DEF Enabled
  <2>2. QED BY <2>1, EdgesOfFewer DEF EdgesWith
<1>3. Searched(Reading(op, k, row)) BY <1>2 DEF Searched, Reading
<1>4. QED BY <1>1, <1>3, OneSearches, LessInUse

LEMMA BeginningsSearch ==
  ASSUME LoopInv, NEW a \in Administrator, NEW k \in MapKey, NEW twoWay \in BOOLEAN, NEW live \in BOOLEAN,
         NEW wanted \in BOOLEAN,
         \/ BeginCreate(a, k, twoWay, live, wanted) \/ BeginUpdate(a, k, twoWay, live)
         \/ BeginEnable(a, k) \/ BeginDisable(a, k) \/ BeginDelete(a, k)
  PROVE  CommandsHaveSearched' /\ EnabledUntangled'
<1>1. mappings[k] \in Mapping BY DEF LoopInv, IInv, RowsAreTyped
<1>2. CASE BeginCreate(a, k, twoWay, live, wanted)
  <2> DEFINE row == [state |-> "live", twoWay |-> twoWay, signed |-> FALSE,
                     enabled |-> wanted /\ live /\ ~Sensitive(k)]
  <2>1. Begins(a, Reading("create", k, row)) /\ ~ClosesLoop(EdgesWith(k, twoWay), k)
    BY <1>2 DEF BeginCreate, ValidateMapping
  <2>2. row.twoWay = twoWay OBVIOUS
  <2> HIDE DEF row
  <2>3. QED BY <2>1, <2>2, BeginningSearches
<1>3. CASE BeginUpdate(a, k, twoWay, live)
  <2> DEFINE row == [mappings[k] EXCEPT !.twoWay = twoWay]
  <2>1. /\ Begins(a, Reading("update", k, row))
        /\ ~ClosesLoop(EdgesWith(k, twoWay), k) \/ (mappings[k].enabled => twoWay = mappings[k].twoWay)
    BY <1>3 DEF BeginUpdate, ValidateMapping
  <2>2. row.twoWay = twoWay BY <1>1 DEF Mapping
  <2> HIDE DEF row
  <2>3. QED BY <2>1, <2>2, BeginningSearches
<1>4. CASE BeginEnable(a, k)
  <2> DEFINE row == [mappings[k] EXCEPT !.enabled = TRUE]
  <2>1. /\ Begins(a, Reading("enable", k, row))
        /\ ~ClosesLoop(EdgesWith(k, mappings[k].twoWay), k)
    BY <1>4 DEF BeginEnable, ValidateMapping
  <2>2. row.twoWay = mappings[k].twoWay BY <1>1 DEF Mapping
  <2> HIDE DEF row
  <2>3. QED BY <2>1, <2>2, BeginningSearches
<1>5. CASE BeginDisable(a, k)
  <2> DEFINE row == [mappings[k] EXCEPT !.enabled = FALSE]
  <2>1. Begins(a, Reading("disable", k, row)) BY <1>5 DEF BeginDisable
  <2> HIDE DEF row
  <2>2. QED BY <2>1, BeginningSearches
<1>6. CASE BeginDelete(a, k)
  <2> DEFINE row == [mappings[k] EXCEPT !.enabled = FALSE, !.state = "deleted"]
  <2>1. Begins(a, Reading("delete", k, row)) BY <1>6 DEF BeginDelete
  <2> HIDE DEF row
  <2>2. QED BY <2>1, BeginningSearches
<1>7. QED BY <1>2, <1>3, <1>4, <1>5, <1>6

\* What a command writes on a row that is as it read it.
LEMMA WrittenAsSearched ==
  ASSUME LoopInv, NEW a \in Administrator, NEW c, c = mapping[a],
         c.op \in {"create", "update", "enable", "disable", "delete"},
         mappings[c.key] = c.before, InUse(Written(c))
  PROVE  /\ c.op \in {"create", "update", "enable"}
         /\ Written(c).twoWay = c.row.twoWay
         /\ c.op = "update" => InUse(c.before)
<1>1. Sound(c, a, requests) /\ Searched(c)
  BY DEF LoopInv, IInv, CommandsAreSound, CommandsHaveSearched
<1>2. mappings[c.key] \in Mapping BY <1>1 DEF Sound, LoopInv, IInv, RowsAreTyped
<1>3. CASE c.op = "create" BY <1>3 DEF Written
<1>4. CASE c.op = "update"
  <2>1. Written(c) = [mappings[c.key] EXCEPT !.twoWay = c.row.twoWay] BY <1>4 DEF Written
  <2>2. QED BY <1>2, <1>4, <2>1 DEF Mapping, InUse
<1>5. CASE c.op \in {"enable", "disable"}
  <2>1. Written(c) = [mappings[c.key] EXCEPT !.enabled = c.row.enabled] BY <1>5 DEF Written
  <2>2. Written(c).enabled = c.row.enabled /\ Written(c).twoWay = c.before.twoWay
    BY <1>2, <2>1 DEF Mapping
  <2>3. QED BY <1>1, <1>5, <2>2 DEF Sound, Searched, InUse
<1>6. CASE c.op = "delete"
  <2>1. Written(c) = [mappings[c.key] EXCEPT !.enabled = FALSE, !.state = "deleted"] BY <1>6 DEF Written
  <2>2. QED BY <1>2, <2>1 DEF Mapping, InUse
<1>7. QED BY <1>3, <1>4, <1>5, <1>6

LEMMA CommitMappingUntangled ==
  ASSUME LoopInv, NEW a \in Administrator, CommitMapping(a)
  PROVE  CommandsHaveSearched' /\ EnabledUntangled'
<1> DEFINE c == mapping[a]
           W == Written(c)
           edges == EdgesOf((Enabled \ staleLoops)', TwoWays')
<1>1. /\ c.op \in {"create", "update", "enable", "disable", "delete"}
      /\ mapping' = [mapping EXCEPT ![a] = AtRest]
      /\ \/ UNCHANGED <<mappings, staleLoops>>
         \/ /\ mappings' = [mappings EXCEPT ![c.key] = W]
            /\ staleLoops' = IF LoopsStale(c) THEN staleLoops \cup {c.key} ELSE staleLoops
  BY DEF CommitMapping, NoHistory
<1>2. CommandsHaveSearched' BY <1>1, OneSearches DEF Searched, AtRest
<1>3. CASE UNCHANGED <<mappings, staleLoops>> BY <1>2, <1>3, LessInUse
<1>4. CASE /\ mappings' = [mappings EXCEPT ![c.key] = W]
           /\ staleLoops' = IF LoopsStale(c) THEN staleLoops \cup {c.key} ELSE staleLoops
  <2>1. c.key \in MapKey /\ Searched(c) /\ DOMAIN mappings = MapKey
    BY <1>1 DEF LoopInv, IInv, RowsAreTyped, CommandsAreSound, Sound, CommandsHaveSearched
  <2>2. /\ mappings'[c.key] = W
        /\ \A k \in MapKey \ {c.key} : mappings'[k] = mappings[k]
    BY <1>4, <2>1
  <2> HIDE DEF W
  <2>3. CASE LoopsStale(c) BY <1>2, <1>4, <2>2, <2>3, LessInUse
  <2>4. CASE ~InUse(W) BY <1>2, <1>4, <2>2, <2>4, LessInUse
  <2>5. CASE ~LoopsStale(c) /\ InUse(W)
    <3>1. /\ EdgesOf(Enabled \cup {c.key}, TwoWays) \subseteq c.edges \cup EdgesOf({c.key}, {c.key})
          /\ mappings[c.key] = c.before
      BY <2>5 DEF LoopsStale
    <3>2. /\ c.op \in {"create", "update", "enable"} /\ W.twoWay = c.row.twoWay
          /\ c.op = "update" => InUse(c.before)
      BY <1>1, <2>5, <3>1, WrittenAsSearched DEF W
    <3>3. CASE c.op = "update" /\ (c.before.enabled => c.row.twoWay = c.before.twoWay)
      <4>1. InUse(mappings[c.key]) /\ W.twoWay = mappings[c.key].twoWay
        BY <3>1, <3>2, <3>3 DEF InUse
      <4>2. QED BY <1>2, <1>4, <2>2, <4>1, LessInUse
    <3>4. CASE ~ClosesLoop(c.edges, c.key)
      <4> DEFINE old == EdgesOf(Enabled \ staleLoops, TwoWays)
      <4>1. /\ (Enabled \ staleLoops)' \in SUBSET MapKey /\ Enabled \cup {c.key} \in SUBSET MapKey
            /\ Enabled \ staleLoops \in SUBSET MapKey
        BY <2>1 DEF Enabled
      <4>2. edges \subseteq Edge /\ OwnEdges(edges, c.key) BY <2>1, <4>1, EdgesOfKeys
      <4>3. \A k \in (Enabled \ staleLoops)' \ {c.key} :
                k \in Enabled \ staleLoops /\ (k \in TwoWays' <=> k \in TwoWays)
        BY <1>4, <2>2, <2>5 DEF Enabled, TwoWays
      <4>4. c.key \in TwoWays' => c.row.twoWay BY <2>2, <3>2 DEF TwoWays
      <4>5. Without(edges, c.key) \subseteq old BY <4>3 DEF Without, EdgesOf
      <4>6. edges \subseteq c.edges
        <5> SUFFICES ASSUME NEW e \in edges PROVE e \in c.edges
          OBVIOUS
        <5>1. CASE e.of = c.key
          <6>1. e \in EdgesOf({c.key}, IF c.row.twoWay THEN {c.key} ELSE {})
            BY <4>4, <5>1 DEF EdgesOf
          <6>2. QED BY <2>1, <3>2, <6>1 DEF Searched
        <5>2. CASE e.of # c.key
          <6>1. e \in old BY <4>5, <5>2 DEF Without
          <6>2. e \in EdgesOf(Enabled \cup {c.key}, TwoWays) BY <6>1 DEF EdgesOf
          <6>3. e \notin EdgesOf({c.key}, {c.key}) BY <2>1, <5>2, EdgesOfKeys
          <6>4. QED BY <3>1, <6>2, <6>3
        <5>3. QED BY <5>1, <5>2
      <4>7. ~ClosesLoop(edges, c.key) BY <2>1, <3>4, <4>6, FewerEdges
      <4>8. Untangled(Without(edges, c.key))
        BY <4>5, FewerEdges DEF LoopInv, EnabledUntangled
      <4> HIDE DEF edges
      <4>9. Untangled(edges) BY <2>1, <4>2, <4>7, <4>8, SearchIsEnough
      <4>10. EnabledUntangled' BY <4>9 DEF EnabledUntangled, edges
      <4>11. QED BY <1>2, <4>10
    <3>5. QED BY <2>1, <3>2, <3>3, <3>4 DEF Searched
  <2>6. QED BY <2>3, <2>4, <2>5
<1>5. QED BY <1>1, <1>3, <1>4

\* All that is left only takes mappings out of use.
LEMMA OthersUntangled ==
  ASSUME LoopInv,
         \/ \E a \in Administrator : CommitVote(a)
         \/ \E a \in Administrator, i \in DOMAIN requests, approve \in BOOLEAN : BeginVote(a, i, approve)
         \/ \E i \in DOMAIN requests : RequestExpires(i)
         \/ \E r \in MapRole, lvl \in ProtectionLevel : Protect(r, lvl)
         \/ \E g \in MapGuild : RemoveGuild(g) \/ ChangeGuild(g) \/ \E live \in BOOLEAN : RegisterGuild(g, live)
         \/ \E r \in MapRole : DeleteRole(r) \/ DisableMappingsOf(r)
         \/ Validation
         \/ UNCHANGED mappingVars
  PROVE  CommandsHaveSearched' /\ EnabledUntangled'
<1> DEFINE Same == \/ UNCHANGED mappings
                   \/ \E keys : Disable(keys)
                   \/ \E k : mappings' = [mappings EXCEPT ![k] = [mappings[k] EXCEPT !.signed = TRUE]]
           Tells(a, c) == c.op \in {"none", "vote"} /\ mapping' = [mapping EXCEPT ![a] = c]
           Told == UNCHANGED mapping \/ \E a \in Administrator : \E c : Tells(a, c)
<1>1. UNCHANGED staleLoops /\ Same /\ Told
  <2>1. CASE \E a \in Administrator : CommitVote(a)
    <3> PICK a \in Administrator : CommitVote(a) BY <2>1
    <3>1. AtRest.op = "none" BY DEF AtRest
    <3>2. UNCHANGED staleLoops /\ Tells(a, AtRest) BY <3>1 DEF CommitVote, NoHistory
    <3> DEFINE k == requests[mapping[a].request].mapping
    <3>3. \/ UNCHANGED mappings
          \/ mappings' = [mappings EXCEPT ![k] = [mappings[k] EXCEPT !.signed = TRUE]]
      BY DEF CommitVote
    <3> HIDE DEF k, Tells
    <3>4. QED BY <3>2, <3>3
  <2>2. CASE \E a \in Administrator, i \in DOMAIN requests, approve \in BOOLEAN : BeginVote(a, i, approve)
    <3> PICK a \in Administrator, i \in DOMAIN requests, approve \in BOOLEAN : BeginVote(a, i, approve) BY <2>2
    <3> DEFINE c == [op |-> "vote", request |-> i, approve |-> approve]
    <3>1. Begins(a, c) /\ c.op = "vote" BY DEF BeginVote
    <3> HIDE DEF c
    <3>2. Tells(a, c) /\ UNCHANGED <<mappings, staleLoops>>
      BY <3>1 DEF Begins, NoHistory
    <3> HIDE DEF Tells
    <3>3. QED BY <3>2
  <2>3. CASE \E i \in DOMAIN requests : RequestExpires(i)
    BY <2>3 DEF RequestExpires, NoHistory
  <2>4. CASE \E r \in MapRole, lvl \in ProtectionLevel : Protect(r, lvl)
    BY <2>4 DEF Protect, Upset
  <2>5. CASE \E g \in MapGuild : RemoveGuild(g)
    BY <2>5 DEF RemoveGuild, Upset, NoHistory
  <2>6. CASE \E g \in MapGuild : ChangeGuild(g) \/ \E live \in BOOLEAN : RegisterGuild(g, live)
    BY <2>6 DEF ChangeGuild, RegisterGuild, Upset, NoHistory
  <2>7. CASE \E r \in MapRole : DeleteRole(r)
    BY <2>7 DEF DeleteRole, Upset, NoHistory
  <2>8. CASE \E r \in MapRole : DisableMappingsOf(r)
    BY <2>8 DEF DisableMappingsOf, NoHistory
  <2>9. CASE Validation
    BY <2>9 DEF Validation, BeginValidation, CheckMapping, NoUpset, NoHistory
  <2>10. CASE UNCHANGED mappingVars BY <2>10 DEF mappingVars
  <2>11. QED BY <2>1, <2>2, <2>3, <2>4, <2>5, <2>6, <2>7, <2>8, <2>9, <2>10
<1>2. \A k \in MapKey : mappings[k] \in Mapping BY DEF LoopInv, IInv, RowsAreTyped
<1>3. DOMAIN mappings = MapKey BY DEF LoopInv, IInv, RowsAreTyped
<1>4. \A k \in MapKey :
          InUse(mappings'[k]) => InUse(mappings[k]) /\ (mappings'[k].twoWay => mappings[k].twoWay)
  <2>1. CASE UNCHANGED mappings BY <2>1
  <2>2. CASE \E keys : Disable(keys)
    <3>1. \A k \in MapKey : mappings'[k] \in {mappings[k], [mappings[k] EXCEPT !.enabled = FALSE]}
      BY <2>2 DEF Disable
    <3>2. \A k \in MapKey : ~InUse([mappings[k] EXCEPT !.enabled = FALSE]) BY <1>2 DEF Mapping, InUse
    <3>3. QED BY <3>1, <3>2
  <2>3. CASE \E k : mappings' = [mappings EXCEPT ![k] = [mappings[k] EXCEPT !.signed = TRUE]]
    <3>1. \A k \in MapKey : mappings'[k] \in {mappings[k], [mappings[k] EXCEPT !.signed = TRUE]}
      BY <1>3, <2>3
    <3>2. \A k \in MapKey : LET signed == [mappings[k] EXCEPT !.signed = TRUE]
                            IN  (InUse(signed) <=> InUse(mappings[k])) /\ signed.twoWay = mappings[k].twoWay
      BY <1>2 DEF Mapping, InUse
    <3>3. QED BY <3>1, <3>2
  <2>4. QED BY <1>1, <2>1, <2>2, <2>3
<1>5. CommandsHaveSearched'
  <2>1. CASE UNCHANGED mapping BY <2>1 DEF LoopInv, CommandsHaveSearched
  <2>2. CASE \E a \in Administrator : \E c : Tells(a, c)
    BY <2>2, OneSearches DEF Searched
  <2>3. QED BY <1>1, <2>1, <2>2
<1>6. QED BY <1>1, <1>4, <1>5, LessInUse

LEMMA NextLoopInv == LoopInv /\ [MappingsNext]_mappingVars => LoopInv'
<1> SUFFICES ASSUME LoopInv, [MappingsNext]_mappingVars PROVE LoopInv'
  OBVIOUS
<1>1. IInv' BY NextIInv DEF LoopInv
<1>2. CommandsHaveSearched' /\ EnabledUntangled'
  <2>1. CASE \E a \in Administrator : CommitMapping(a) BY <2>1, CommitMappingUntangled
  <2>2. CASE \E a \in Administrator, k \in MapKey, twoWay, live, wanted \in BOOLEAN :
                 \/ BeginCreate(a, k, twoWay, live, wanted) \/ BeginUpdate(a, k, twoWay, live)
                 \/ BeginEnable(a, k) \/ BeginDisable(a, k) \/ BeginDelete(a, k)
    BY <2>2, BeginningsSearch
  <2>3. CASE \/ \E a \in Administrator : CommitVote(a)
             \/ \E a \in Administrator, i \in DOMAIN requests, approve \in BOOLEAN : BeginVote(a, i, approve)
             \/ \E i \in DOMAIN requests : RequestExpires(i)
             \/ \E r \in MapRole, lvl \in ProtectionLevel : Protect(r, lvl)
             \/ \E g \in MapGuild : RemoveGuild(g) \/ ChangeGuild(g) \/ \E live \in BOOLEAN : RegisterGuild(g, live)
             \/ \E r \in MapRole : DeleteRole(r) \/ DisableMappingsOf(r)
             \/ Validation
             \/ UNCHANGED mappingVars
    BY <2>3, OthersUntangled
  <2>4. QED BY <2>1, <2>2, <2>3 DEF MappingsNext, Command
<1>3. QED BY <1>1, <1>2 DEF LoopInv

\* The loop check of mapping-service.js and cycle-detection.js is enough: however
\* commands overlap, the enabled mappings close no way through two of them,
\* except where one was written on an outdated reading of the others.
THEOREM NoLoopsAreEnabled == MappingsSpec => []EnabledUntangled
<1>1. LoopInv => EnabledUntangled BY DEF LoopInv
<1>2. QED BY InitLoopInv, NextLoopInv, <1>1, PTL DEF MappingsSpec
-----------------------------------------------------------------------------

\* What else there is has its type.
KindsAreTyped ==
    \A a \in Administrator :
        \/ mapping[a] = AtRest
        \/ mapping[a].op = "vote"
        \/ mapping[a].op \in {"create", "update", "enable", "disable", "delete"} /\ mapping[a].sensitive \in BOOLEAN

Validated == [left : SUBSET MapKey, guilds : [MapGuild -> {"approved", "disabled", "removed"}],
              synced : SUBSET MapGuild]

PlacesAreTyped ==
    /\ protection \in [MapRole -> ProtectionLevel]
    /\ guildState \in [MapGuild -> {"approved", "disabled", "removed"}] /\ syncedGuilds \subseteq MapGuild
    /\ liveRoles \subseteq MapRole /\ deletions \subseteq MapRole
    /\ checking \in Validated
    /\ mappingOps \in 0 .. MaxMappingOps /\ upsets \in 0 .. MaxUpsets
    /\ staleLoops \subseteq MapKey /\ staleSigns \subseteq MapKey

MappingsInv == LoopInv /\ KindsAreTyped /\ PlacesAreTyped

LEMMA KindsStay ==
  ASSUME KindsAreTyped, UNCHANGED mapping
  PROVE  KindsAreTyped'
  BY DEF KindsAreTyped

LEMMA KindBegins ==
  ASSUME IInv, KindsAreTyped, PlacesAreTyped, NEW a \in Administrator, NEW command, Free(a),
         Begins(a, command),
         \/ command.op = "vote"
         \/ command.op \in {"create", "update", "enable", "disable", "delete"} /\ command.sensitive \in BOOLEAN
  PROVE  KindsAreTyped' /\ PlacesAreTyped'
<1>1. DOMAIN mapping = Administrator BY DEF IInv, RowsAreTyped
<1>2. mapping' = [mapping EXCEPT ![a] = command] BY DEF Begins
<1>3. KindsAreTyped' BY <1>1, <1>2 DEF KindsAreTyped
<1>4. mappingOps' \in 0 .. MaxMappingOps BY MappingsConstants DEF Begins, Free, PlacesAreTyped
<1>5. UNCHANGED <<protection, guildState, syncedGuilds, liveRoles, deletions, upsets, staleLoops, staleSigns, checking>>
  BY DEF Begins, NoUpset, NoHistory
<1>6. QED BY <1>3, <1>4, <1>5 DEF PlacesAreTyped

LEMMA CommandTyped ==
  ASSUME IInv, KindsAreTyped, PlacesAreTyped, NEW a \in Administrator, Command(a)
  PROVE  KindsAreTyped' /\ PlacesAreTyped'
<1>1. \A op, k, row : Reading(op, k, row).op = op /\ Reading(op, k, row).sensitive \in BOOLEAN
  BY DEF Reading, Sensitive
<1>2. ASSUME Free(a), NEW op \in {"create", "update", "enable", "disable", "delete"}, NEW k, NEW row,
             Begins(a, Reading(op, k, row))
      PROVE  KindsAreTyped' /\ PlacesAreTyped'
  BY <1>1, <1>2, KindBegins
<1>3. ASSUME Free(a), NEW k \in MapKey, NEW twoWay \in BOOLEAN, NEW live \in BOOLEAN, NEW wanted \in BOOLEAN,
             \/ BeginCreate(a, k, twoWay, live, wanted) \/ BeginUpdate(a, k, twoWay, live)
             \/ BeginEnable(a, k) \/ BeginDisable(a, k) \/ BeginDelete(a, k)
      PROVE  KindsAreTyped' /\ PlacesAreTyped'
  <2>1. CASE BeginCreate(a, k, twoWay, live, wanted)
    <3>1. \E row : Begins(a, Reading("create", k, row)) BY <2>1 DEF BeginCreate
    <3>2. QED BY <1>2, <1>3, <3>1
  <2>2. CASE BeginUpdate(a, k, twoWay, live)
    <3>1. \E row : Begins(a, Reading("update", k, row)) BY <2>2 DEF BeginUpdate
    <3>2. QED BY <1>2, <1>3, <3>1
  <2>3. CASE BeginEnable(a, k)
    <3>1. \E row : Begins(a, Reading("enable", k, row)) BY <2>3 DEF BeginEnable
    <3>2. QED BY <1>2, <1>3, <3>1
  <2>4. CASE BeginDisable(a, k)
    <3>1. \E row : Begins(a, Reading("disable", k, row)) BY <2>4 DEF BeginDisable
    <3>2. QED BY <1>2, <1>3, <3>1
  <2>5. CASE BeginDelete(a, k)
    <3>1. \E row : Begins(a, Reading("delete", k, row)) BY <2>5 DEF BeginDelete
    <3>2. QED BY <1>2, <1>3, <3>1
  <2>6. QED BY <1>3, <2>1, <2>2, <2>3, <2>4, <2>5
<1>4. ASSUME Free(a), NEW i \in DOMAIN requests, NEW approve \in BOOLEAN, BeginVote(a, i, approve)
      PROVE  KindsAreTyped' /\ PlacesAreTyped'
  <2> DEFINE command == [op |-> "vote", request |-> i, approve |-> approve]
  <2>1. Begins(a, command) /\ command.op = "vote" BY <1>4 DEF BeginVote
  <2> HIDE DEF command
  <2>2. QED BY <1>4, <2>1, KindBegins
<1>5. ASSUME mapping' = [mapping EXCEPT ![a] = AtRest] PROVE KindsAreTyped'
  BY <1>5 DEF IInv, RowsAreTyped, KindsAreTyped
<1>6. CASE CommitMapping(a)
  <2>1. mapping[a].key \in MapKey
    <3>1. Sound(mapping[a], a, requests) BY DEF IInv, CommandsAreSound
    <3>2. QED BY <1>6, <3>1 DEF CommitMapping, Sound
  <2>2. /\ UNCHANGED <<protection, guildState, syncedGuilds, liveRoles, deletions, upsets, checking, mappingOps>>
        /\ staleLoops' \in {staleLoops, staleLoops \cup {mapping[a].key}}
        /\ staleSigns' \in {staleSigns, staleSigns \cup {mapping[a].key}}
    BY <1>6 DEF CommitMapping, NoUpset, NoHistory
  <2>3. staleLoops \subseteq MapKey /\ staleSigns \subseteq MapKey BY DEF PlacesAreTyped
  <2>4. staleLoops' \subseteq MapKey /\ staleSigns' \subseteq MapKey BY <2>1, <2>2, <2>3
  <2>5. PlacesAreTyped' BY <2>2, <2>4 DEF PlacesAreTyped
  <2>6. QED BY <1>5, <1>6, <2>5 DEF CommitMapping
<1>7. CASE CommitVote(a)
  <2>1. PlacesAreTyped' BY <1>7 DEF CommitVote, NoUpset, NoHistory, PlacesAreTyped
  <2>2. QED BY <1>5, <1>7, <2>1 DEF CommitVote
<1>8. QED BY <1>3, <1>4, <1>6, <1>7 DEF Command

LEMMA UpsetTyped ==
  ASSUME PlacesAreTyped, KindsAreTyped,
         \/ \E r \in MapRole : \/ DeleteRole(r) \/ DisableMappingsOf(r)
                               \/ \E lvl \in ProtectionLevel : Protect(r, lvl)
         \/ \E g \in MapGuild : RemoveGuild(g) \/ ChangeGuild(g) \/ \E live \in BOOLEAN : RegisterGuild(g, live)
         \/ \E i \in DOMAIN requests : RequestExpires(i)
         \/ Validation
  PROVE  PlacesAreTyped' /\ KindsAreTyped'
<1>1. ASSUME Upset PROVE upsets' \in 0 .. MaxUpsets /\ UNCHANGED <<mapping, mappingOps>>
  BY <1>1, MappingsConstants DEF Upset, PlacesAreTyped
<1>2. ASSUME NEW r \in MapRole, DeleteRole(r) PROVE PlacesAreTyped' /\ UNCHANGED mapping
  BY <1>1, <1>2 DEF DeleteRole, NoHistory, PlacesAreTyped
<1>3. ASSUME NEW r \in MapRole, DisableMappingsOf(r) PROVE PlacesAreTyped' /\ UNCHANGED mapping
  BY <1>3 DEF DisableMappingsOf, NoHistory, PlacesAreTyped
<1>4. ASSUME NEW r \in MapRole, NEW lvl \in ProtectionLevel, Protect(r, lvl)
      PROVE  PlacesAreTyped' /\ UNCHANGED mapping
  <2>1. {k \in Enabled : r \in RolesOf(k)} \subseteq MapKey BY DEF Enabled
  <2>2. protection' \in [MapRole -> ProtectionLevel] BY <1>4 DEF Protect, PlacesAreTyped
  <2>3. staleSigns' \subseteq MapKey BY <1>4, <2>1 DEF Protect, PlacesAreTyped
  <2>4. QED BY <1>1, <1>4, <2>2, <2>3 DEF Protect, PlacesAreTyped
<1>5. ASSUME NEW g \in MapGuild, RemoveGuild(g) PROVE PlacesAreTyped' /\ UNCHANGED mapping
  <2>1. guildState' \in [MapGuild -> {"approved", "disabled", "removed"}] /\ syncedGuilds' \subseteq MapGuild
    BY <1>5 DEF RemoveGuild, PlacesAreTyped
  <2>2. QED BY <1>1, <1>5, <2>1 DEF RemoveGuild, NoHistory, PlacesAreTyped
<1>6. ASSUME NEW g \in MapGuild, ChangeGuild(g) \/ \E live \in BOOLEAN : RegisterGuild(g, live)
      PROVE  PlacesAreTyped' /\ UNCHANGED mapping
  <2>1. \E state \in {"approved", "disabled"} : guildState' = [guildState EXCEPT ![g] = state]
    BY <1>6 DEF ChangeGuild, RegisterGuild
  <2>2. guildState' \in [MapGuild -> {"approved", "disabled", "removed"}] BY <2>1 DEF PlacesAreTyped
  <2>3. syncedGuilds' \in {syncedGuilds \cup {g}, syncedGuilds \ {g}} BY <1>6 DEF ChangeGuild, RegisterGuild
  <2>4. syncedGuilds' \subseteq MapGuild BY <2>3 DEF PlacesAreTyped
  <2>5. QED BY <1>1, <1>6, <2>2, <2>4 DEF ChangeGuild, RegisterGuild, NoHistory, PlacesAreTyped
<1>7. ASSUME NEW i \in DOMAIN requests, RequestExpires(i) PROVE PlacesAreTyped' /\ UNCHANGED mapping
  BY <1>7 DEF RequestExpires, NoUpset, NoHistory, PlacesAreTyped
<1>8. CASE Validation
  <2>1. checking' \in Validated
    <3>1. CASE BeginValidation
      <4>1. Enabled \subseteq MapKey BY DEF Enabled
      <4>2. QED BY <3>1, <4>1 DEF BeginValidation, PlacesAreTyped, Validated
    <3>2. NothingToCheck \in Validated BY DEF NothingToCheck, Validated
    <3>3. ASSUME NEW k \in MapKey, CheckMapping(k) PROVE checking' \in Validated
      <4>1. checking' \in {NothingToCheck, [checking EXCEPT !.left = checking.left \ {k}]}
        BY <3>3 DEF CheckMapping
      <4>2. [checking EXCEPT !.left = checking.left \ {k}] \in Validated BY DEF PlacesAreTyped, Validated
      <4>3. QED BY <3>2, <4>1, <4>2
    <3>4. QED BY <1>8, <3>1, <3>3 DEF Validation
  <2>2. UNCHANGED <<protection, guildState, syncedGuilds, liveRoles, deletions, upsets, mapping, mappingOps,
                    staleLoops, staleSigns>>
    BY <1>8 DEF Validation, BeginValidation, CheckMapping, NoUpset, NoHistory
  <2>3. PlacesAreTyped' BY <2>1, <2>2 DEF PlacesAreTyped
  <2>4. QED BY <2>2, <2>3, KindsStay
<1>9. QED BY <1>2, <1>3, <1>4, <1>5, <1>6, <1>7, <1>8, KindsStay

LEMMA InitMappings == MappingsInit => MappingsInv
<1> SUFFICES ASSUME MappingsInit PROVE MappingsInv
  OBVIOUS
<1>1. LoopInv BY InitLoopInv
<1>2. KindsAreTyped BY DEF MappingsInit, KindsAreTyped
<1>3. checking \in Validated BY DEF MappingsInit, NothingToCheck, Validated
<1>4. PlacesAreTyped BY <1>3, MappingsConstants DEF MappingsInit, PlacesAreTyped
<1>5. QED BY <1>1, <1>2, <1>4 DEF MappingsInv

LEMMA NextMappings == MappingsInv /\ [MappingsNext]_mappingVars => MappingsInv'
<1> SUFFICES ASSUME MappingsInv, [MappingsNext]_mappingVars PROVE MappingsInv'
  OBVIOUS
<1>1. LoopInv' BY NextLoopInv DEF MappingsInv
<1>2. CASE MappingsNext
  <2>1. KindsAreTyped' /\ PlacesAreTyped' BY <1>2, CommandTyped, UpsetTyped DEF MappingsNext, MappingsInv, LoopInv
  <2>2. QED BY <1>1, <2>1 DEF MappingsInv
<1>3. CASE UNCHANGED mappingVars
  BY <1>1, <1>3 DEF mappingVars, MappingsInv, KindsAreTyped, PlacesAreTyped
<1>4. QED BY <1>2, <1>3

LEMMA MappingsAreTyped == MappingsInv => MappingsTypeOK
<1> SUFFICES ASSUME MappingsInv PROVE MappingsTypeOK
  OBVIOUS
<1>1. RowsAreTyped /\ CommandsAreSound BY DEF MappingsInv, LoopInv, IInv
<1>2. \A i \in DOMAIN requests : requests[i] \in Request BY <1>1 DEF RowsAreTyped
<1>3. \A a \in Administrator :
          \/ mapping[a] = AtRest
          \/ mapping[a].op = "vote" /\ mapping[a].request \in DOMAIN requests /\ mapping[a].approve \in BOOLEAN
          \/ /\ mapping[a].op \in {"create", "update", "enable", "disable", "delete"} /\ mapping[a].key \in MapKey
             /\ mapping[a].row \in Mapping /\ mapping[a].sensitive \in BOOLEAN
  BY <1>1 DEF MappingsInv, KindsAreTyped, CommandsAreSound, Sound
<1>4. QED BY <1>1, <1>2, <1>3 DEF MappingsInv, PlacesAreTyped, Validated, RowsAreTyped, MappingsTypeOK

-----------------------------------------------------------------------------
(***************************************************************************)
(* Delegation: the chain of grants behind a right cannot be climbed by     *)
(* snapshots, revocations, expiries, tiers or restarts.                    *)
(***************************************************************************)


AssignmentRow == [ceiling : Ceiling \cup {Unlimited}, by : Person \cup {Bootstrap}, revoked : BOOLEAN, lapsed : BOOLEAN]

\* A row is of a person and of a scope its capability supports.
ProperKey(k) == k \in RowKey /\ (k[3] # Global => k[2] \in GuildCapability)

CommandsAreTyped ==
    /\ DOMAIN actors = Person /\ DOMAIN writing = Person
    /\ \A p \in Person : /\ actors[p] # NoActor => actors[p].level \in 0 .. AdminLevel
                         /\ writing[p].step \in {"idle", "grant", "revoke"}

RightsAreTyped ==
    /\ assignments \in [DOMAIN assignments -> AssignmentRow]
    /\ \A k \in DOMAIN assignments : ProperKey(k)
    /\ held \in [Person -> SUBSET Right]
    /\ level \in [Person -> 0 .. AdminLevel] /\ tierPeople \subseteq Person
    /\ permissionOps \in 0 .. MaxPermissionOps
    /\ CommandsAreTyped

\* Whoever has these rights may put a right of this ceiling in the row.
MayBack(rights, k, ceiling) ==
    /\ \E r \in rights : /\ r.capability = k[2] /\ ScopeCovers(r, k[3])
                         /\ ceiling <= r.ceiling
    /\ \E r \in rights : r.capability = "permission.grant" /\ ScopeCovers(r, k[3])

\* What a person has now he has had.
HeldIsHistory == \A p \in Person : RightsOf(assignments, tierPeople, p) \subseteq held[p]

\* A snapshot has nothing its caller has not had.
SnapshotsWereHeld == \A p \in Person : actors[p] # NoActor => actors[p].rights \subseteq held[p]

\* A grant that is about to be written is its caller's to make.
WritesAreBacked ==
    \A p \in Person : writing[p].step = "grant" =>
        /\ writing[p].ceiling \in Ceiling \cup {Unlimited} /\ ProperKey(writing[p].key)
        /\ MayBack(held[p], writing[p].key, writing[p].ceiling)

\* A row that stands was its granter's to write.
RowsAreBacked ==
    \A k \in DOMAIN assignments :
        assignments[k].by \in Person => MayBack(held[assignments[k].by], k, assignments[k].ceiling)

RightsInv == RightsAreTyped /\ HeldIsHistory /\ SnapshotsWereHeld /\ WritesAreBacked /\ RowsAreBacked

-----------------------------------------------------------------------------

\* More rights back whatever fewer did.
LEMMA BackingGrows ==
  ASSUME NEW few, NEW many, few \subseteq many, NEW k, NEW ceiling, MayBack(few, k, ceiling)
  PROVE  MayBack(many, k, ceiling)
  BY DEF MayBack

\* What the rows and the tier give somebody are rights, and the tier's level is one.
LEMMA RightsAreRights ==
  ASSUME NEW rows, NEW tier, NEW p,
         \A k \in DOMAIN rows : k \in RowKey /\ rows[k].ceiling \in Ceiling \cup {Unlimited}
  PROVE  RightsOf(rows, tier, p) \subseteq Right
<1>1. \A k \in RowKey : k[2] \in Capability /\ k[3] \in Scope BY DEF RowKey
<1>2. Assigned(rows, p) \subseteq Right BY <1>1 DEF Assigned, Right
<1>3. TierRights \subseteq Right BY PermissionsConstants DEF TierRights, Right, Scope
<1>4. QED BY <1>2, <1>3 DEF RightsOf

LEMMA TierLevelIsLevel == TierLevel \in 0 .. AdminLevel
<1> DEFINE Levels == {0} \cup {MinLevel[c] : c \in TierCapability}
           Below == {AdminLevel - n : n \in Levels}
           R == {pair \in Nat \X Nat : pair[1] < pair[2]}
<1>1. Levels \subseteq 0 .. AdminLevel BY PermissionsConstants DEF AdminLevel
<1>2. Below \subseteq Nat /\ Below # {} BY <1>1 DEF AdminLevel
<1>3. IsWellFoundedOn(R, Nat)
  <2>1. OpToRel(<, Nat) = R BY DEF OpToRel
  <2>2. QED BY <2>1, NatLessThanWellFounded
<1>4. PICK i \in Below : \A j \in Below : <<j, i>> \notin R
  <2> HIDE DEF R, Below
  <2>1. QED BY <1>2, <1>3, WFMin
<1>5. PICK n \in Levels : i = AdminLevel - n OBVIOUS
<1>6. ASSUME NEW m \in Levels PROVE m <= n
  <2>1. AdminLevel - m \in Below OBVIOUS
  <2>2. m \in 0 .. AdminLevel /\ n \in 0 .. AdminLevel BY <1>1
  <2>3. ~(AdminLevel - m < AdminLevel - n) BY <1>2, <1>4, <1>5, <2>1
  <2>4. QED BY <2>2, <2>3 DEF AdminLevel
<1>7. \A c \in TierCapability : MinLevel[c] \in Levels OBVIOUS
<1>8. TierLevel = CHOOSE m \in Levels : \A c \in TierCapability : MinLevel[c] <= m BY DEF TierLevel
<1> HIDE DEF Levels
<1>9. TierLevel \in Levels BY <1>5, <1>6, <1>7, <1>8
<1>10. QED BY <1>1, <1>9

LEMMA InitRights == PermissionsInit => RightsInv
<1> SUFFICES ASSUME PermissionsInit PROVE RightsInv
  OBVIOUS
<1>1. /\ assignments = [k \in RootPerson \X Capability \X {Global} |-> AdminRow]
      /\ tierPeople = {}
      /\ actors = [p \in Person |-> NoActor] /\ writing = [p \in Person |-> NoActor]
      /\ held = [p \in Person |-> Assigned(assignments, p)]
      /\ level = [p \in Person |-> IF p \in RootPerson THEN AdminLevel ELSE StoredLevel[p]]
      /\ permissionOps = MaxPermissionOps
  BY DEF PermissionsInit
<1>2. AdminRow \in AssignmentRow BY DEF AdminRow, AssignmentRow, Unlimited
<1>3. RightsAreTyped
  <2>1. \A k \in DOMAIN assignments : ProperKey(k) /\ assignments[k] = AdminRow
    BY <1>1, PermissionsConstants DEF ProperKey, RowKey, Scope
  <2>2. \A p \in Person : Assigned(assignments, p) \subseteq Right
    BY <2>1, RightsAreRights DEF ProperKey, AdminRow, RightsOf
  <2>3. CommandsAreTyped BY <1>1 DEF CommandsAreTyped, NoActor
  <2>4. level \in [Person -> 0 .. AdminLevel] BY <1>1, PermissionsConstants DEF AdminLevel
  <2>5. permissionOps \in 0 .. MaxPermissionOps BY <1>1, PermissionsConstants
  <2>6. QED BY <1>1, <1>2, <2>1, <2>2, <2>3, <2>4, <2>5 DEF RightsAreTyped
<1>4. HeldIsHistory BY <1>1 DEF HeldIsHistory, RightsOf
<1>5. SnapshotsWereHeld BY <1>1 DEF SnapshotsWereHeld
<1>6. WritesAreBacked BY <1>1 DEF WritesAreBacked, NoActor
<1>7. \A k \in DOMAIN assignments : assignments[k].by = Bootstrap BY <1>1 DEF AdminRow
<1>8. RowsAreBacked BY <1>7, PermissionsConstants DEF RowsAreBacked
<1>9. QED BY <1>3, <1>4, <1>5, <1>6, <1>8 DEF RightsInv

\* A step that remembers keeps all that was held, and adds what is.
LEMMA RememberingKeeps ==
  ASSUME RightsAreTyped, Remember
  PROVE  /\ DOMAIN held' = Person
         /\ HeldIsHistory'
         /\ \A p \in Person : held[p] \subseteq held'[p]
         /\ (\A k \in DOMAIN assignments' :
                  ProperKey(k) /\ assignments'[k].ceiling \in Ceiling \cup {Unlimited}) =>
                held' \in [Person -> SUBSET Right]
<1>1. /\ DOMAIN held' = Person /\ HeldIsHistory' /\ \A p \in Person : held[p] \subseteq held'[p]
  BY DEF RightsAreTyped, Remember, HeldIsHistory
<1>2. ASSUME \A k \in DOMAIN assignments' :
                 ProperKey(k) /\ assignments'[k].ceiling \in Ceiling \cup {Unlimited}
      PROVE  held' \in [Person -> SUBSET Right]
  <2>1. \A p \in Person : RightsOf(assignments', tierPeople', p) \subseteq Right
    BY <1>2, RightsAreRights DEF ProperKey
  <2>2. held \in [Person -> SUBSET Right] BY DEF RightsAreTyped
  <2>3. QED BY <2>1, <2>2 DEF Remember
<1>3. QED BY <1>1, <1>2

\* Steps that touch neither rows nor rights, and only begin or drop a command.
LEMMA RightsBegin ==
  ASSUME RightsInv, UNCHANGED <<assignments, tierPeople, held, level>>,
         permissionOps' \in 0 .. MaxPermissionOps,
         CommandsAreTyped', SnapshotsWereHeld', WritesAreBacked'
  PROVE  RightsInv'
<1>1. RightsAreTyped' BY DEF RightsInv, RightsAreTyped
<1>2. HeldIsHistory' BY DEF RightsInv, HeldIsHistory, RightsOf, Assigned, InForce
<1>3. RowsAreBacked' BY DEF RightsInv, RowsAreBacked, MayBack, ScopeCovers
<1>4. QED BY <1>1, <1>2, <1>3 DEF RightsInv

\* Steps that change rows or tiers: the rows that are new are backed, and the
\* others keep granter and ceiling.
LEMMA ChangesKeep ==
  ASSUME RightsInv, Remember,
         assignments' \in [DOMAIN assignments' -> AssignmentRow],
         \A k \in DOMAIN assignments' : ProperKey(k),
         level' \in [Person -> 0 .. AdminLevel], tierPeople' \subseteq Person,
         permissionOps' \in 0 .. MaxPermissionOps,
         \A p \in Person : actors'[p] \in {actors[p], NoActor},
         \A p \in Person : writing'[p] \in {writing[p], NoActor},
         DOMAIN actors' = Person, DOMAIN writing' = Person,
         \A k \in DOMAIN assignments' :
             \/ /\ k \in DOMAIN assignments
                /\ assignments'[k].by = assignments[k].by
                /\ assignments'[k].ceiling = assignments[k].ceiling
             \/ assignments'[k].by \in Person =>
                    MayBack(held[assignments'[k].by], k, assignments'[k].ceiling)
  PROVE  RightsInv'
<1> USE DEF RightsInv
<1>1. /\ DOMAIN held' = Person /\ HeldIsHistory'
      /\ \A p \in Person : held[p] \subseteq held'[p]
  BY RememberingKeeps
<1>2. RightsAreTyped'
  <2>1. CommandsAreTyped' BY DEF RightsAreTyped, CommandsAreTyped, NoActor
  <2>2. \A k \in DOMAIN assignments' : assignments'[k].ceiling \in Ceiling \cup {Unlimited}
    BY DEF AssignmentRow
  <2>3. held' \in [Person -> SUBSET Right] BY <2>2, RememberingKeeps
  <2>4. QED BY <2>1, <2>3 DEF RightsAreTyped
<1>3. SnapshotsWereHeld' BY <1>1 DEF SnapshotsWereHeld
<1>4. WritesAreBacked'
  <2> SUFFICES ASSUME NEW p \in Person, writing'[p].step = "grant"
               PROVE  /\ writing'[p].ceiling \in Ceiling \cup {Unlimited} /\ ProperKey(writing'[p].key)
                      /\ MayBack(held'[p], writing'[p].key, writing'[p].ceiling)
    BY DEF WritesAreBacked, MayBack, ScopeCovers, ProperKey
  <2>1. writing'[p] = writing[p] BY DEF NoActor
  <2>2. /\ writing[p].ceiling \in Ceiling \cup {Unlimited} /\ ProperKey(writing[p].key)
        /\ MayBack(held[p], writing[p].key, writing[p].ceiling)
    BY <2>1 DEF WritesAreBacked
  <2>3. QED BY <1>1, <2>1, <2>2, BackingGrows
<1>5. RowsAreBacked'
  <2> SUFFICES ASSUME NEW k \in DOMAIN assignments', assignments'[k].by \in Person
               PROVE  MayBack(held'[assignments'[k].by], k, assignments'[k].ceiling)
    BY DEF RowsAreBacked, MayBack, ScopeCovers
  <2>1. MayBack(held[assignments'[k].by], k, assignments'[k].ceiling)
    BY DEF RowsAreBacked
  <2>2. QED BY <1>1, <2>1, BackingGrows
<1>6. QED BY <1>1, <1>2, <1>3, <1>4, <1>5

-----------------------------------------------------------------------------

\* A snapshot is of rights in force, or of some of them.
LEMMA LoadActorKeeps ==
  ASSUME RightsInv, NEW p \in Person, LoadActorOf(p)
  PROVE  RightsInv'
<1>1. PICK tier \in {tierPeople, {}} :
          actors' = [actors EXCEPT ![p] =
              [step |-> "loaded", rights |-> RightsOf(assignments, tier, p),
               level |-> IF p \in tier /\ TierLevel > level[p] THEN TierLevel ELSE level[p]]]
  BY DEF LoadActorOf
<1>2. UNCHANGED <<assignments, tierPeople, held, writing, level>> BY DEF LoadActorOf
<1>3. RightsOf(assignments, tier, p) \subseteq held[p]
  <2>1. RightsOf(assignments, tierPeople, p) \subseteq held[p] BY DEF RightsInv, HeldIsHistory
  <2>2. RightsOf(assignments, tier, p) \subseteq RightsOf(assignments, tierPeople, p) BY DEF RightsOf
  <2>3. QED BY <2>1, <2>2
<1>4. SnapshotsWereHeld'
  <2> SUFFICES ASSUME NEW q \in Person, actors'[q] # NoActor
               PROVE  actors'[q].rights \subseteq held[q]
    BY <1>2 DEF SnapshotsWereHeld
  <2>1. CASE q = p BY <1>1, <1>3, <2>1 DEF RightsInv, RightsAreTyped, CommandsAreTyped
  <2>2. CASE q # p BY <1>1, <2>2 DEF RightsInv, RightsAreTyped, CommandsAreTyped, SnapshotsWereHeld
  <2>3. QED BY <2>1, <2>2
<1>5. WritesAreBacked' BY <1>2 DEF RightsInv, WritesAreBacked, MayBack, ScopeCovers, ProperKey
<1>6. CommandsAreTyped'
  <2>1. level[p] \in 0 .. AdminLevel BY DEF RightsInv, RightsAreTyped
  <2>2. (IF p \in tier /\ TierLevel > level[p] THEN TierLevel ELSE level[p]) \in 0 .. AdminLevel
    BY <2>1, TierLevelIsLevel
  <2>3. QED BY <1>1, <1>2, <2>2 DEF RightsInv, RightsAreTyped, CommandsAreTyped
<1>7. permissionOps' \in 0 .. MaxPermissionOps
  BY PermissionsConstants DEF LoadActorOf, RightsInv, RightsAreTyped
<1>8. QED BY <1>2, <1>4, <1>5, <1>6, <1>7, RightsBegin

\* assertCanGrant is what makes a grant its caller's to make.
LEMMA BeginGrantKeeps ==
  ASSUME RightsInv, NEW p \in Person, NEW target \in Person, NEW right \in Right,
         BeginGrant(p, target, right)
  PROVE  RightsInv'
<1> DEFINE k == <<target, right.capability, right.scope>>
           w == [step |-> "grant", key |-> k, ceiling |-> right.ceiling,
                 existing |-> k \in DOMAIN assignments]
<1>1. writing' = [writing EXCEPT ![p] = w] BY DEF BeginGrant
<1>2. UNCHANGED <<assignments, tierPeople, held, actors, level, permissionOps>> BY DEF BeginGrant
<1>3. actors[p].rights \subseteq held[p] BY DEF BeginGrant, RightsInv, SnapshotsWereHeld
<1>4. MayBack(actors[p].rights, k, right.ceiling)
  BY DEF BeginGrant, CanGrant, Authorized, MayBack
<1>5. MayBack(held[p], k, right.ceiling) BY <1>3, <1>4, BackingGrows
<1>6. right.ceiling \in Ceiling \cup {Unlimited} /\ ProperKey(k)
  <2>1. right.capability \in Capability /\ right.scope \in Scope /\ right.ceiling \in Ceiling \cup {Unlimited}
    BY DEF Right
  <2>2. right.scope = Global \/ right.capability \in GuildCapability BY DEF BeginGrant, CanGrant
  <2>3. QED BY <2>1, <2>2 DEF ProperKey, RowKey
<1>7. WritesAreBacked'
  <2> SUFFICES ASSUME NEW q \in Person, writing'[q].step = "grant"
               PROVE  /\ writing'[q].ceiling \in Ceiling \cup {Unlimited} /\ ProperKey(writing'[q].key)
                      /\ MayBack(held[q], writing'[q].key, writing'[q].ceiling)
    BY <1>2 DEF WritesAreBacked, MayBack, ScopeCovers, ProperKey
  <2>1. CASE q = p
    <3>1. writing'[q] = w BY <1>1, <2>1 DEF RightsInv, RightsAreTyped, CommandsAreTyped
    <3>2. QED BY <1>5, <1>6, <2>1, <3>1
  <2>2. CASE q # p
    <3>1. writing'[q] = writing[q] BY <1>1, <2>2 DEF RightsInv, RightsAreTyped, CommandsAreTyped
    <3>2. QED BY <3>1 DEF RightsInv, WritesAreBacked
  <2>3. QED BY <2>1, <2>2
<1>8. SnapshotsWereHeld' BY <1>2 DEF RightsInv, SnapshotsWereHeld
<1>9. CommandsAreTyped' BY <1>1, <1>2 DEF RightsInv, RightsAreTyped, CommandsAreTyped
<1>10. permissionOps' \in 0 .. MaxPermissionOps BY <1>2 DEF RightsInv, RightsAreTyped
<1>11. QED BY <1>2, <1>7, <1>8, <1>9, <1>10, RightsBegin

\* A revocation that begins writes nothing yet.
LEMMA BeginRevokeKeeps ==
  ASSUME RightsInv, NEW p \in Person, NEW k \in RowKey, BeginRevoke(p, k)
  PROVE  RightsInv'
<1>1. writing' = [writing EXCEPT ![p] = [step |-> "revoke", key |-> k]] BY DEF BeginRevoke
<1>2. UNCHANGED <<assignments, tierPeople, held, actors, level, permissionOps>> BY DEF BeginRevoke
<1>3. WritesAreBacked'
  <2> SUFFICES ASSUME NEW q \in Person, writing'[q].step = "grant"
               PROVE  /\ writing'[q].ceiling \in Ceiling \cup {Unlimited} /\ ProperKey(writing'[q].key)
                      /\ MayBack(held[q], writing'[q].key, writing'[q].ceiling)
    BY <1>2 DEF WritesAreBacked, MayBack, ScopeCovers, ProperKey
  <2>1. writing'[q] = writing[q] BY <1>1 DEF RightsInv, RightsAreTyped, CommandsAreTyped
  <2>2. QED BY <2>1 DEF RightsInv, WritesAreBacked
<1>4. SnapshotsWereHeld' BY <1>2 DEF RightsInv, SnapshotsWereHeld
<1>5. CommandsAreTyped' BY <1>1, <1>2 DEF RightsInv, RightsAreTyped, CommandsAreTyped
<1>6. permissionOps' \in 0 .. MaxPermissionOps BY <1>2 DEF RightsInv, RightsAreTyped
<1>7. QED BY <1>2, <1>3, <1>4, <1>5, <1>6, RightsBegin

-----------------------------------------------------------------------------

LEMMA DoneEnds ==
  ASSUME RightsAreTyped, NEW p \in Person, Done(p)
  PROVE  /\ \A q \in Person : actors'[q] \in {actors[q], NoActor}
         /\ \A q \in Person : writing'[q] \in {writing[q], NoActor}
         /\ DOMAIN actors' = Person /\ DOMAIN writing' = Person
  BY DEF RightsAreTyped, CommandsAreTyped, Done

\* The row of a grant is the one that was checked.
LEMMA CommitGrantKeeps ==
  ASSUME RightsInv, NEW p \in Person, CommitGrant(p)
  PROVE  RightsInv'
<1> DEFINE w == writing[p]
           row == [ceiling |-> w.ceiling, by |-> p, revoked |-> FALSE, lapsed |-> FALSE]
           written == [k \in DOMAIN assignments \cup {w.key} |->
                          IF k = w.key THEN row ELSE assignments[k]]
<1>1. Remember /\ Done(p) /\ assignments' \in {assignments, written} BY DEF CommitGrant
<1>2. w.ceiling \in Ceiling \cup {Unlimited} /\ ProperKey(w.key) /\ MayBack(held[p], w.key, w.ceiling)
  BY DEF CommitGrant, RightsInv, WritesAreBacked
<1>3. RightsAreTyped BY DEF RightsInv
<1>4. row \in AssignmentRow BY <1>2 DEF AssignmentRow
<1>5. assignments \in [DOMAIN assignments -> AssignmentRow] BY <1>3 DEF RightsAreTyped
<1>6. written \in [DOMAIN written -> AssignmentRow] BY <1>4, <1>5
<1>7. \A k \in DOMAIN written :
          \/ k \in DOMAIN assignments /\ written[k] = assignments[k]
          \/ k = w.key /\ written[k] = row
  OBVIOUS
<1>8. row.by = p /\ row.ceiling = w.ceiling OBVIOUS
<1> HIDE DEF row, written
<1>9. assignments' \in [DOMAIN assignments' -> AssignmentRow] BY <1>1, <1>5, <1>6
<1>10. \A k \in DOMAIN assignments' :
          \/ /\ k \in DOMAIN assignments
             /\ assignments'[k].by = assignments[k].by
             /\ assignments'[k].ceiling = assignments[k].ceiling
          \/ assignments'[k].by \in Person =>
                 MayBack(held[assignments'[k].by], k, assignments'[k].ceiling)
  BY <1>1, <1>2, <1>7, <1>8
<1>11. \A k \in DOMAIN assignments' : ProperKey(k) BY <1>1, <1>2, <1>3, <1>7 DEF RightsAreTyped
<1>12. UNCHANGED <<level, tierPeople, permissionOps>> BY DEF CommitGrant
<1>13. QED BY <1>1, <1>3, <1>9, <1>10, <1>11, <1>12, DoneEnds, ChangesKeep DEF RightsAreTyped

\* A revocation, an expiry and a restart change nothing of a row but whether it
\* is in force.
LEMMA CommitRevokeKeeps ==
  ASSUME RightsInv, NEW p \in Person, CommitRevoke(p)
  PROVE  RightsInv'
<1> DEFINE key == writing[p].key
<1>1. /\ Remember /\ Done(p)
      /\ assignments' = [assignments EXCEPT ![key].revoked = TRUE]
  BY DEF CommitRevoke
<1>2. RightsAreTyped BY DEF RightsInv
<1>3. \A k \in DOMAIN assignments :
          /\ [assignments[k] EXCEPT !.revoked = TRUE] \in AssignmentRow
          /\ [assignments[k] EXCEPT !.revoked = TRUE].by = assignments[k].by
          /\ [assignments[k] EXCEPT !.revoked = TRUE].ceiling = assignments[k].ceiling
  BY <1>2 DEF RightsAreTyped, AssignmentRow
<1>4. /\ DOMAIN assignments' = DOMAIN assignments
      /\ \A k \in DOMAIN assignments :
             assignments'[k] \in {assignments[k], [assignments[k] EXCEPT !.revoked = TRUE]}
  BY <1>1, <1>2 DEF RightsAreTyped
<1>5. assignments' \in [DOMAIN assignments' -> AssignmentRow]
  BY <1>1, <1>2, <1>3, <1>4 DEF RightsAreTyped
<1>6. \A k \in DOMAIN assignments' :
          /\ k \in DOMAIN assignments
          /\ assignments'[k].by = assignments[k].by
          /\ assignments'[k].ceiling = assignments[k].ceiling
  BY <1>3, <1>4
<1>7. UNCHANGED <<level, tierPeople, permissionOps>> BY DEF CommitRevoke
<1>8. \A k \in DOMAIN assignments' : ProperKey(k) BY <1>2, <1>4 DEF RightsAreTyped
<1>9. QED BY <1>1, <1>2, <1>5, <1>6, <1>7, <1>8, DoneEnds, ChangesKeep DEF RightsAreTyped

LEMMA LapseKeeps ==
  ASSUME RightsInv, NEW key \in RowKey, Lapse(key)
  PROVE  RightsInv'
<1>1. /\ Remember /\ UNCHANGED <<actors, writing>>
      /\ assignments' = [assignments EXCEPT ![key].lapsed = TRUE]
  BY DEF Lapse
<1>2. RightsAreTyped BY DEF RightsInv
<1>3. \A k \in DOMAIN assignments :
          /\ [assignments[k] EXCEPT !.lapsed = TRUE] \in AssignmentRow
          /\ [assignments[k] EXCEPT !.lapsed = TRUE].by = assignments[k].by
          /\ [assignments[k] EXCEPT !.lapsed = TRUE].ceiling = assignments[k].ceiling
  BY <1>2 DEF RightsAreTyped, AssignmentRow
<1>4. /\ DOMAIN assignments' = DOMAIN assignments
      /\ \A k \in DOMAIN assignments :
             assignments'[k] \in {assignments[k], [assignments[k] EXCEPT !.lapsed = TRUE]}
  BY <1>1, <1>2 DEF RightsAreTyped
<1>5. assignments' \in [DOMAIN assignments' -> AssignmentRow]
  BY <1>1, <1>2, <1>3, <1>4 DEF RightsAreTyped
<1>6. \A k \in DOMAIN assignments' :
          /\ k \in DOMAIN assignments
          /\ assignments'[k].by = assignments[k].by
          /\ assignments'[k].ceiling = assignments[k].ceiling
  BY <1>3, <1>4
<1>7. UNCHANGED <<level, tierPeople>> BY DEF Lapse
<1>8. permissionOps' \in 0 .. MaxPermissionOps BY <1>2, PermissionsConstants DEF Lapse, RightsAreTyped
<1>9. \A k \in DOMAIN assignments' : ProperKey(k) BY <1>2, <1>4 DEF RightsAreTyped
<1>10. QED BY <1>1, <1>2, <1>5, <1>6, <1>7, <1>8, <1>9, ChangesKeep DEF RightsAreTyped, CommandsAreTyped

\* The rows the bootstrap makes are nobody's grants.
LEMMA ReconcileRootKeeps ==
  ASSUME RightsInv, NEW p \in Person, ReconcileRoot(p)
  PROVE  RightsInv'
<1> DEFINE rows == DOMAIN assignments \cup ({p} \X Capability \X {Global})
           Restored(k) == IF k \notin DOMAIN assignments THEN AdminRow
                          ELSE IF k[1] = p /\ k[3] = Global
                               THEN [assignments[k] EXCEPT !.revoked = FALSE]
                               ELSE assignments[k]
<1>1. /\ Remember /\ UNCHANGED <<actors, writing>>
      /\ assignments' = [k \in rows |-> Restored(k)]
  BY DEF ReconcileRoot
<1>2. RightsAreTyped BY DEF RightsInv
<1>3. \A k \in DOMAIN assignments :
          /\ Restored(k) \in AssignmentRow
          /\ Restored(k).by = assignments[k].by
          /\ Restored(k).ceiling = assignments[k].ceiling
  BY <1>2 DEF RightsAreTyped, AssignmentRow
<1>4. \A k \in rows \ DOMAIN assignments :
          Restored(k) \in AssignmentRow /\ Restored(k).by \notin Person
  BY PermissionsConstants DEF AdminRow, AssignmentRow, Unlimited
<1> HIDE DEF Restored
<1>5. DOMAIN assignments' = rows /\ \A k \in rows : assignments'[k] = Restored(k) BY <1>1
<1>6. assignments' \in [DOMAIN assignments' -> AssignmentRow] BY <1>1, <1>3, <1>4
<1>7. \A k \in DOMAIN assignments' :
          \/ /\ k \in DOMAIN assignments
             /\ assignments'[k].by = assignments[k].by
             /\ assignments'[k].ceiling = assignments[k].ceiling
          \/ assignments'[k].by \notin Person
  BY <1>3, <1>4, <1>5
<1>8. \A k \in rows : ProperKey(k)
  BY <1>2, PermissionsConstants DEF RightsAreTyped, ReconcileRoot, ProperKey, RowKey, Scope
<1>9. level' \in [Person -> 0 .. AdminLevel]
  BY <1>2 DEF ReconcileRoot, RightsAreTyped, AdminLevel
<1>10. permissionOps' \in 0 .. MaxPermissionOps
  BY <1>2, PermissionsConstants DEF ReconcileRoot, RightsAreTyped
<1>11. tierPeople' \subseteq Person BY <1>2 DEF ReconcileRoot, RightsAreTyped
<1>12. QED BY <1>1, <1>2, <1>5, <1>6, <1>7, <1>8, <1>9, <1>10, <1>11, ChangesKeep
          DEF RightsAreTyped, CommandsAreTyped

LEMMA TierRoleChangesKeep ==
  ASSUME RightsInv, NEW p \in Person, TierRoleChanges(p)
  PROVE  RightsInv'
<1>1. Remember /\ UNCHANGED <<assignments, actors, writing>> BY DEF TierRoleChanges
<1>2. RightsAreTyped BY DEF RightsInv
<1>3. level' \in [Person -> 0 .. AdminLevel] /\ tierPeople' \subseteq Person
  BY <1>2 DEF TierRoleChanges, RightsAreTyped
<1>4. permissionOps' \in 0 .. MaxPermissionOps
  BY <1>2, PermissionsConstants DEF TierRoleChanges, RightsAreTyped
<1>5. QED BY <1>1, <1>2, <1>3, <1>4, ChangesKeep DEF RightsAreTyped, CommandsAreTyped

-----------------------------------------------------------------------------

LEMMA NextRights == RightsInv /\ [PermissionsNext]_permissionVars => RightsInv'
<1> SUFFICES ASSUME RightsInv, [PermissionsNext]_permissionVars PROVE RightsInv'
  OBVIOUS
<1>1. CASE \E p \in Person : LoadActorOf(p) BY <1>1, LoadActorKeeps
<1>2. CASE \E p \in Person : CommitGrant(p) BY <1>2, CommitGrantKeeps
<1>3. CASE \E p \in Person : CommitRevoke(p) BY <1>3, CommitRevokeKeeps
<1>4. CASE \E p \in Person : ReconcileRoot(p) BY <1>4, ReconcileRootKeeps
<1>5. CASE \E p \in Person : TierRoleChanges(p) BY <1>5, TierRoleChangesKeep
<1>6. CASE \E p, target \in Person, right \in Right : BeginGrant(p, target, right)
  BY <1>6, BeginGrantKeeps
<1>7. CASE \E p \in Person, k \in RowKey : BeginRevoke(p, k) BY <1>7, BeginRevokeKeeps
<1>8. CASE \E k \in RowKey : Lapse(k) BY <1>8, LapseKeeps
<1>9. CASE UNCHANGED permissionVars
  <2>1. UNCHANGED <<assignments, tierPeople, actors, writing, held, level, permissionOps>>
    BY <1>9 DEF permissionVars
  <2>2. SnapshotsWereHeld' BY <2>1 DEF RightsInv, SnapshotsWereHeld
  <2>3. WritesAreBacked' BY <2>1 DEF RightsInv, WritesAreBacked, MayBack, ScopeCovers, ProperKey
  <2>4. CommandsAreTyped' /\ permissionOps' \in 0 .. MaxPermissionOps
    BY <2>1 DEF RightsInv, RightsAreTyped, CommandsAreTyped
  <2>5. QED BY <2>1, <2>2, <2>3, <2>4, RightsBegin
<1>10. QED BY <1>1, <1>2, <1>3, <1>4, <1>5, <1>6, <1>7, <1>8, <1>9 DEF PermissionsNext

LEMMA PermissionsAreTyped == RightsInv => PermissionsTypeOK
<1> SUFFICES ASSUME RightsInv PROVE PermissionsTypeOK
  OBVIOUS
<1>1. \A k \in DOMAIN assignments : assignments[k] \in AssignmentRow /\ ProperKey(k)
  BY DEF RightsInv, RightsAreTyped
<1>2. \A p \in Person : actors[p] # NoActor => actors[p].rights \subseteq Right
  BY DEF RightsInv, RightsAreTyped, SnapshotsWereHeld
<1>3. QED BY <1>1, <1>2 DEF RightsInv, RightsAreTyped, CommandsAreTyped, PermissionsTypeOK, AssignmentRow, ProperKey

\* Every right in a row was its granter's to give, for any people, capabilities,
\* scopes, ceilings and number of commands: the capability itself, in a scope and
\* under a ceiling at least as wide, and the right to grant there (grants.js,
\* permission-service.js).
THEOREM RightsAreDelegated == PermissionsSpec => []NothingBeyondDelegation
<1>1. RightsInv => NothingBeyondDelegation BY DEF RightsInv, RowsAreBacked, MayBack, NothingBeyondDelegation
<1>2. QED BY InitRights, NextRights, <1>1, PTL DEF PermissionsSpec
==============================================================================
