--------------------------- MODULE RgbPsbtProofs ---------------------------
(***************************************************************************)
(* Proofs about RgbPsbt, for every set of contracts, transitions, foreign  *)
(* protocols and outputs.  The argument goes through one relation, OutStep,*)
(* between an output before and after a call: a finalized output keeps its *)
(* messages and commitment, a commitment is a snapshot of the messages and *)
(* a script is a snapshot of the commitment.                               *)
(***************************************************************************)
EXTENDS RgbPsbt, TLAPS

OutStep(o, q) ==
    /\ q \in Output
    /\ q.kind = o.kind
    /\ o.mpc_commitment # None => /\ q.mpc_commitment = o.mpc_commitment
                                  /\ q.mpc_message = o.mpc_message
                                  /\ q.script = o.script
    /\ q.mpc_commitment \in {o.mpc_commitment, q.mpc_message}
    /\ q.script \in {o.script, q.mpc_commitment}
    /\ \A c \in ContractIds :
          q.mpc_message[c] # None => o.mpc_message[c] # None \/ c \in Contracts

-----------------------------------------------------------------------------
(* What the operators on outputs do.                                       *)

\* set_mpc_message on one output: it stays an output, only its messages
\* change, and only where they were absent (WithMessages).
LEMMA WithMessagesLemma ==
    ASSUME NEW o \in Output, NEW ps, NEW msg,
           \A p \in ps \cap Protocols : msg[p] \in Messages
    PROVE  LET q == WithMessages(o, ps, msg) IN
           /\ q \in Output
           /\ q.kind = o.kind /\ q.host = o.host
           /\ q.internal_key = o.internal_key /\ q.tap_tree = o.tap_tree
           /\ q.mpc_commitment = o.mpc_commitment
           /\ q.dbc_commitment = o.dbc_commitment
           /\ q.script = o.script
           /\ \A p \in Protocols :
                 q.mpc_message[p] = IF p \in ps /\ o.mpc_message[p] = None
                                      THEN msg[p] ELSE o.mpc_message[p]
  <1> DEFINE mm == [p \in Protocols |-> IF p \in ps /\ o.mpc_message[p] = None
                                          THEN msg[p] ELSE o.mpc_message[p]]
  <1>1. mm \in MessageMaps
    BY DEF MessageMaps, Output
  <1>2. WithMessages(o, ps, msg) = [o EXCEPT !.mpc_message = mm]
    BY DEF WithMessages
  <1> HIDE DEF mm
  <1>3. WithMessages(o, ps, msg) \in Output
    BY <1>1, <1>2 DEF Output
  <1>4. WithMessages(o, ps, msg).mpc_message = mm
    BY <1>2 DEF Output
  <1>5. QED
    BY <1>2, <1>3, <1>4 DEF mm, Output

\* The input map of a contract is a message of that contract.
LEMMA BundleMessages ==
    ASSUME TypeOK, NEW cs \in SUBSET ContractIds
    PROVE  \A p \in cs \cap Protocols : consumed_by[p] \in Messages
  BY DEF TypeOK, Messages

\* rgb_bundles_to_mpc changes only messages, and adds only those of
\* contracts with consumers (Embedded).
LEMMA EmbeddedLemma ==
    ASSUME TypeOK, NEW j \in Outputs, NEW cs \in SUBSET Contracts
    PROVE  /\ Embedded(j, cs) \in [Outputs -> Output]
           /\ \A k \in Outputs : k # j => Embedded(j, cs)[k] = outs[k]
           /\ \A k \in Outputs :
                 LET o == outs[k] q == Embedded(j, cs)[k] IN
                 /\ q.kind = o.kind /\ q.host = o.host
                 /\ q.mpc_commitment = o.mpc_commitment /\ q.script = o.script
                 /\ \A p \in Protocols :
                       q.mpc_message[p] = IF k = j /\ p \in cs /\ o.mpc_message[p] = None
                                            THEN consumed_by[p] ELSE o.mpc_message[p]
  <1>1. outs[j] \in Output /\ outs \in [Outputs -> Output]
    BY DEF TypeOK
  <1>2. \A p \in cs \cap Protocols : consumed_by[p] \in Messages
    BY BundleMessages DEF Contracts
  <1> DEFINE q == WithMessages(outs[j], cs, consumed_by)
  <1>3. /\ q \in Output
        /\ q.kind = outs[j].kind /\ q.host = outs[j].host
        /\ q.mpc_commitment = outs[j].mpc_commitment /\ q.script = outs[j].script
        /\ \A p \in Protocols :
              q.mpc_message[p] = IF p \in cs /\ outs[j].mpc_message[p] = None
                                   THEN consumed_by[p] ELSE outs[j].mpc_message[p]
    BY <1>1, <1>2, WithMessagesLemma
  <1>4. Embedded(j, cs) = [outs EXCEPT ![j] = q]
    BY DEF Embedded
  <1> HIDE DEF q
  <1>5. QED
    BY <1>1, <1>3, <1>4

\* Setting messages on a host none of whose contracts refuses, or on the
\* contracts before the first refused one, is an OutStep of every output.
LEMMA EmbeddedStep ==
    ASSUME TypeOK, NEW j \in Outputs, NEW cs \in SUBSET Contracts,
           \A c \in cs : ~ MessageRefused(outs[j], c, consumed_by[c])
    PROVE  \A k \in Outputs : OutStep(outs[k], Embedded(j, cs)[k])
  <1> DEFINE e == Embedded(j, cs)
  <1>1. /\ e \in [Outputs -> Output]
        /\ \A k \in Outputs : k # j => e[k] = outs[k]
        /\ \A k \in Outputs :
              /\ e[k].kind = outs[k].kind /\ e[k].host = outs[k].host
              /\ e[k].mpc_commitment = outs[k].mpc_commitment
              /\ e[k].script = outs[k].script
              /\ \A p \in Protocols :
                    e[k].mpc_message[p] =
                        IF k = j /\ p \in cs /\ outs[k].mpc_message[p] = None
                          THEN consumed_by[p] ELSE outs[k].mpc_message[p]
    BY EmbeddedLemma
  <1> HIDE DEF e
  <1> SUFFICES ASSUME NEW k \in Outputs PROVE OutStep(outs[k], e[k])
    BY DEF e
  <1>2. e[k] \in Output /\ e[k].kind = outs[k].kind
    BY <1>1
  <1>3. ASSUME outs[k].mpc_commitment # None
        PROVE  e[k].mpc_message = outs[k].mpc_message
    <2>1. CASE k # j
      BY <2>1, <1>1
    <2>2. CASE k = j
      <3>1. cs = {}
        BY <1>3, <2>2 DEF MessageRefused
      <3>2. \A p \in Protocols : e[k].mpc_message[p] = outs[k].mpc_message[p]
        BY <1>1, <3>1
      <3>3. e[k].mpc_message \in MessageMaps /\ outs[k].mpc_message \in MessageMaps
        BY <1>1 DEF TypeOK, Output
      <3>4. QED
        BY <3>2, <3>3 DEF MessageMaps
    <2>3. QED
      BY <2>1, <2>2
  <1>4. \A c \in ContractIds : e[k].mpc_message[c] # None =>
            outs[k].mpc_message[c] # None \/ c \in Contracts
    BY <1>1 DEF Protocols
  <1>5. QED
    BY <1>1, <1>2, <1>3, <1>4 DEF OutStep

\* mpc_commit on an output that is not finalized, alone or followed by the
\* steps of tapret_commit and opret_commit, is an OutStep; the script ends
\* up with the message map.
LEMMA FinalizeLemma ==
    ASSUME NEW o \in Output, NEW e \in Output, OutStep(o, e),
           e.mpc_commitment = None, e.script = o.script
    PROVE  /\ OutStep(o, MpcCommitted(e))
           /\ OutStep(o, [MpcCommitted(e) EXCEPT !.tap_tree = TRUE])
           /\ OutStep(o, ScriptCommitted(DbcCommitted(MpcCommitted(e))))
           /\ MpcCommitted(e).script = o.script
           /\ [MpcCommitted(e) EXCEPT !.tap_tree = TRUE].script = o.script
           /\ ScriptCommitted(DbcCommitted(MpcCommitted(e))).script = e.mpc_message
           /\ ScriptCommitted(DbcCommitted(MpcCommitted(e))).mpc_commitment = e.mpc_message
           /\ ScriptCommitted(DbcCommitted(MpcCommitted(e))).mpc_message = e.mpc_message
  <1> DEFINE a == MpcCommitted(e)
             b == [a EXCEPT !.tap_tree = TRUE]
             d == DbcCommitted(a)
             z == ScriptCommitted(d)
  <1>1. /\ a \in Output
        /\ a.kind = e.kind /\ a.mpc_message = e.mpc_message
        /\ a.mpc_commitment = e.mpc_message /\ a.script = e.script
    BY DEF MpcCommitted, Output
  <1> HIDE DEF a
  <1>2. /\ b \in Output
        /\ b.kind = a.kind /\ b.mpc_message = a.mpc_message
        /\ b.mpc_commitment = a.mpc_commitment /\ b.script = a.script
    BY <1>1 DEF Output
  <1>3. /\ d \in Output
        /\ d.kind = a.kind /\ d.mpc_message = a.mpc_message
        /\ d.mpc_commitment = a.mpc_commitment /\ d.script = a.script
        /\ d.dbc_commitment = a.mpc_message
    <2>1. (a.tap_tree \/ a.kind = "p2tr") \in BOOLEAN
      OBVIOUS
    <2>2. d = [[[a EXCEPT !.dbc_commitment = a.mpc_message] EXCEPT !.host = FALSE]
                  EXCEPT !.tap_tree = (a.tap_tree \/ a.kind = "p2tr")]
      BY <1>1 DEF DbcCommitted, Output
    <2>3. QED
      BY <1>1, <2>1, <2>2 DEF Output
  <1> HIDE DEF d
  <1>4. /\ z \in Output
        /\ z.kind = d.kind /\ z.mpc_message = d.mpc_message
        /\ z.mpc_commitment = d.mpc_commitment /\ z.script = d.dbc_commitment
    BY <1>3 DEF ScriptCommitted, Output
  <1> HIDE DEF z, b
  <1>5. QED
    BY <1>1, <1>2, <1>3, <1>4 DEF OutStep, a, b, d, z

\* A call that leaves the outputs alone is an OutStep of each.
LEMMA UnchangedStep ==
    ASSUME TypeOK, UNCHANGED outs
    PROVE  outs' \in [Outputs -> Output] /\ \A k \in Outputs : OutStep(outs[k], outs'[k])
  BY DEF TypeOK, OutStep

\* A foreign protocol's set_mpc_message is an OutStep of every output.
LEMMA ForeignStep ==
    ASSUME TypeOK, NEW i \in Outputs, NEW p \in Foreign, NEW m \in ForeignMsgs,
           set_mpc_message(i, p, m)
    PROVE  /\ outs' \in [Outputs -> Output]
           /\ \A k \in Outputs : OutStep(outs[k], outs'[k])
           /\ \A k \in Outputs : outs'[k].script = outs[k].script
  <1>1. CASE outs' = outs
    BY <1>1, UnchangedStep
  <1>2. CASE ~ MessageRefused(outs[i], p, m)
    <2> DEFINE msg == [q \in {p} |-> m]
               w == WithMessages(outs[i], {p}, msg)
    <2>1. outs' = [outs EXCEPT ![i] = w]
      BY <1>2 DEF set_mpc_message
    <2>2. outs[i] \in Output /\ outs \in [Outputs -> Output]
      BY DEF TypeOK
    <2>3. \A q \in {p} \cap Protocols : msg[q] \in Messages
      BY DEF Messages
    <2>4. /\ w \in Output
          /\ w.kind = outs[i].kind
          /\ w.mpc_commitment = outs[i].mpc_commitment
          /\ w.script = outs[i].script
          /\ \A q \in Protocols :
                w.mpc_message[q] = IF q \in {p} /\ outs[i].mpc_message[q] = None
                                     THEN msg[q] ELSE outs[i].mpc_message[q]
      BY <2>2, <2>3, WithMessagesLemma
    <2> HIDE DEF w
    <2>5. OutStep(outs[i], w)
      <3>1. outs[i].mpc_commitment = None
        BY <1>2 DEF MessageRefused
      <3>2. \A c \in ContractIds : w.mpc_message[c] = outs[i].mpc_message[c]
        BY <2>4, ProtocolAssumption DEF Protocols
      <3>3. QED
        BY <2>4, <3>1, <3>2 DEF OutStep
    <2>6. \A k \in Outputs : k # i => OutStep(outs[k], outs[k])
      BY <2>2 DEF OutStep
    <2>7. QED
      BY <2>1, <2>2, <2>4, <2>5, <2>6
  <1>3. QED
    BY <1>1, <1>2 DEF set_mpc_message

\* Facts common to the ways rgb_commit can end after rgb_bundles_to_mpc.
LEMMA DbcCommitLemma ==
    ASSUME TypeOK, NEW j \in Outputs, NEW i \in Outputs, DbcCommit(j, i),
           ~ MpcFails(Embedded(j, Contracts)[i])
    PROVE  LET e == Embedded(j, Contracts) IN
           /\ e \in [Outputs -> Output]
           /\ \A k \in Outputs : OutStep(outs[k], e[k]) /\ e[k].script = outs[k].script
           /\ e[i].mpc_commitment = None
           /\ outs[i].mpc_commitment = None
  <1>1. \A c \in Contracts : ~ MessageRefused(outs[j], c, consumed_by[c])
    BY DEF DbcCommit, BundlesToMpc, Refusals
  <1>2. \A k \in Outputs : OutStep(outs[k], Embedded(j, Contracts)[k])
    BY <1>1, EmbeddedStep
  <1>3. QED
    BY <1>2, EmbeddedLemma DEF MpcFails

\* Replacing one output by an OutStep of it.
LEMMA ReplaceStep ==
    ASSUME NEW e \in [Outputs -> Output], NEW i \in Outputs, NEW z,
           \A k \in Outputs : OutStep(outs[k], e[k]), OutStep(outs[i], z),
           outs' = [e EXCEPT ![i] = z]
    PROVE  outs' \in [Outputs -> Output] /\ \A k \in Outputs : OutStep(outs[k], outs'[k])
  BY DEF OutStep

\* Every way in which rgb_commit fails keeps the scripts, hence the txid.
LEMMA FailedCommitStep ==
    ASSUME TypeOK,
           \/ commit_no_method \/ commit_no_host \/ commit_message_refused
           \/ commit_no_contracts \/ commit_modifiable \/ commit_mpc_fails
           \/ commit_prohibited \/ commit_tap_tree \/ commit_no_internal_key
    PROVE  /\ outs' \in [Outputs -> Output]
           /\ \A k \in Outputs : OutStep(outs[k], outs'[k])
           /\ \A k \in Outputs : outs'[k].script = outs[k].script
  <1>1. CASE commit_no_method \/ commit_no_host \/ commit_no_contracts
    BY <1>1, UnchangedStep DEF commit_no_method, commit_no_host, commit_no_contracts
  <1>2. CASE commit_message_refused
    <2>1. PICK j \in Outputs, c \in ContractIds :
             /\ IsFirst(c, Refusals(j))
             /\ outs' = Embedded(j, {d \in Contracts : d < c})
      BY <1>2 DEF commit_message_refused
    <2> DEFINE cs == {d \in Contracts : d < c}
    <2>2. \A d \in cs : ~ MessageRefused(outs[j], d, consumed_by[d])
      BY <2>1, OrderedAssumption DEF IsFirst, Refusals, Contracts
    <2>3. cs \in SUBSET Contracts
      OBVIOUS
    <2> HIDE DEF cs
    <2>4. QED
      BY <2>1, <2>2, <2>3, EmbeddedStep, EmbeddedLemma DEF cs
  <1>3. CASE commit_modifiable
    <2>1. PICK j \in Outputs : BundlesToMpc(j) /\ outs' = Embedded(j, Contracts)
      BY <1>3 DEF commit_modifiable
    <2>2. \A c \in Contracts : ~ MessageRefused(outs[j], c, consumed_by[c])
      BY <2>1 DEF BundlesToMpc, Refusals
    <2>3. QED
      BY <2>1, <2>2, EmbeddedStep, EmbeddedLemma
  <1>4. CASE commit_mpc_fails
    <2>1. PICK j \in Outputs : BundlesToMpc(j) /\ outs' = Embedded(j, Contracts)
      BY <1>4 DEF commit_mpc_fails, DbcCommit
    <2>2. \A c \in Contracts : ~ MessageRefused(outs[j], c, consumed_by[c])
      BY <2>1 DEF BundlesToMpc, Refusals
    <2>3. QED
      BY <2>1, <2>2, EmbeddedStep, EmbeddedLemma
  <1>5. CASE commit_prohibited \/ commit_tap_tree \/ commit_no_internal_key
    <2>1. PICK j \in Outputs, i \in Outputs :
             /\ DbcCommit(j, i)
             /\ ~ MpcFails(Embedded(j, Contracts)[i])
             /\ \/ outs' = [Embedded(j, Contracts) EXCEPT
                              ![i] = MpcCommitted(Embedded(j, Contracts)[i])]
                \/ outs' = [Embedded(j, Contracts) EXCEPT
                              ![i] = [MpcCommitted(Embedded(j, Contracts)[i])
                                        EXCEPT !.tap_tree = TRUE]]
      BY <1>5 DEF commit_prohibited, commit_tap_tree, commit_no_internal_key
    <2> DEFINE e == Embedded(j, Contracts)
    <2>2. /\ e \in [Outputs -> Output]
          /\ \A k \in Outputs : OutStep(outs[k], e[k]) /\ e[k].script = outs[k].script
          /\ e[i].mpc_commitment = None
      BY <2>1, DbcCommitLemma
    <2> HIDE DEF e
    <2>3. outs[i] \in Output /\ e[i] \in Output
      BY <2>2 DEF TypeOK
    <2>4. /\ OutStep(outs[i], MpcCommitted(e[i]))
          /\ OutStep(outs[i], [MpcCommitted(e[i]) EXCEPT !.tap_tree = TRUE])
          /\ MpcCommitted(e[i]).script = outs[i].script
          /\ [MpcCommitted(e[i]) EXCEPT !.tap_tree = TRUE].script = outs[i].script
      BY <2>2, <2>3, FinalizeLemma
    <2>5. PICK z : /\ z = MpcCommitted(e[i]) \/ z = [MpcCommitted(e[i]) EXCEPT !.tap_tree = TRUE]
                   /\ outs' = [e EXCEPT ![i] = z]
      BY <2>1 DEF e
    <2>6. OutStep(outs[i], z) /\ z.script = outs[i].script
      BY <2>4, <2>5
    <2>7. QED
      BY <2>2, <2>5, <2>6, ReplaceStep
  <1>6. QED
    BY <1>1, <1>2, <1>3, <1>4, <1>5

\* The successful rgb_commit: the script of the first proper output, which
\* was not finalized before, carries the messages of that output.
LEMMA CommitOkStep ==
    ASSUME TypeOK, commit_ok
    PROVE  \E i, j \in Outputs :
              LET e == Embedded(j, Contracts)[i] IN
              /\ outs' \in [Outputs -> Output]
              /\ \A k \in Outputs : OutStep(outs[k], outs'[k])
              /\ IsFirst(i, ProperOutputs) /\ IsFirst(j, Hosts) /\ outs[i].host
              /\ Refusals(j) = {} /\ close_method # None
              /\ outs[i].mpc_commitment = None
              /\ e.mpc_message \in MessageMaps
              /\ outs'[i].script = e.mpc_message
              /\ \A k \in Outputs : k # i => outs'[k].script = outs[k].script
              /\ fascia' = [bundles |-> consumed_by, known |-> KnownTransitions,
                            anchor |-> e.mpc_message, vout |-> i]
  <1>1. PICK j \in Outputs, i \in Outputs :
           /\ DbcCommit(j, i)
           /\ ~ MpcFails(Embedded(j, Contracts)[i])
           /\ outs[i].host
           /\ outs' = [Embedded(j, Contracts) EXCEPT ![i] =
                 ScriptCommitted(DbcCommitted(MpcCommitted(Embedded(j, Contracts)[i])))]
           /\ fascia' = [bundles |-> consumed_by, known |-> KnownTransitions,
                         anchor |-> Embedded(j, Contracts)[i].mpc_message, vout |-> i]
    BY DEF commit_ok
  <1> DEFINE e == Embedded(j, Contracts)
             z == ScriptCommitted(DbcCommitted(MpcCommitted(e[i])))
  <1>2. /\ e \in [Outputs -> Output]
        /\ \A k \in Outputs : OutStep(outs[k], e[k]) /\ e[k].script = outs[k].script
        /\ e[i].mpc_commitment = None
        /\ outs[i].mpc_commitment = None
    BY <1>1, DbcCommitLemma
  <1>3. outs' = [e EXCEPT ![i] = z]
    BY <1>1
  <1>4. e[i].mpc_message = Embedded(j, Contracts)[i].mpc_message
    OBVIOUS
  <1> HIDE DEF e
  <1>5. outs[i] \in Output /\ e[i] \in Output
    BY <1>2 DEF TypeOK
  <1>6. OutStep(outs[i], z) /\ z.script = e[i].mpc_message
    BY <1>2, <1>5, FinalizeLemma
  <1> HIDE DEF z
  <1>7. /\ outs' \in [Outputs -> Output]
        /\ \A k \in Outputs : OutStep(outs[k], outs'[k])
    BY <1>2, <1>3, <1>6, ReplaceStep
  <1>8. outs'[i].script = e[i].mpc_message
    BY <1>2, <1>3, <1>6
  <1>9. e[i].mpc_message \in MessageMaps
    BY <1>5 DEF Output
  <1>10. IsFirst(i, ProperOutputs) /\ IsFirst(j, Hosts) /\ Refusals(j) = {} /\ close_method # None
    BY <1>1 DEF DbcCommit, BundlesToMpc
  <1>11. \A k \in Outputs : k # i => outs'[k].script = outs[k].script
    BY <1>2, <1>3
  <1>12. QED
    BY <1>1, <1>2, <1>4, <1>7, <1>8, <1>9, <1>10, <1>11

\* Every call of Next is an OutStep of every output.
LEMMA NextOutStep ==
    ASSUME TypeOK, [Next]_vars
    PROVE  outs' \in [Outputs -> Output] /\ \A k \in Outputs : OutStep(outs[k], outs'[k])
  <1>1. CASE UNCHANGED outs
    BY <1>1, UnchangedStep
  <1>2. CASE \E i \in Outputs, p \in Foreign, m \in ForeignMsgs : set_mpc_message(i, p, m)
    BY <1>2, ForeignStep
  <1>3. CASE rgb_commit
    BY <1>3, FailedCommitStep, CommitOkStep DEF rgb_commit
  <1>4. QED
    BY <1>1, <1>2, <1>3 DEF Next, vars, set_rgb_close_method, set_as_unmodifiable,
       push_rgb_transition, push_too_big, push_double_spend, push_ok
-----------------------------------------------------------------------------
(* Type correctness.                                                       *)

\* Claiming inputs keeps the consumers well typed, and claims exactly os.
LEMMA WithConsumerLemma ==
    ASSUME TypeOK, NEW t \in OpIds, NEW os \in SUBSET Opouts
    PROVE  LET w == WithConsumer(t, os) IN
           /\ w \in [ContractIds -> Consumers]
           /\ \A c \in ContractIds, o \in Opouts :
                 w[c][o] = IF c = contract_of[t] /\ o \in os THEN t ELSE consumed_by[c][o]
  <1>1. contract_of[t] \in ContractIds
    BY TransitionAssumption
  <1>2. [o \in Opouts |-> IF o \in os THEN t ELSE consumed_by[contract_of[t]][o]] \in Consumers
    BY <1>1 DEF Consumers, TypeOK
  <1>3. QED
    BY <1>1, <1>2 DEF WithConsumer, TypeOK, Consumers

\* The initial outputs are outputs.
LEMMA InitType == Init => TypeOK
  <1> SUFFICES ASSUME Init PROVE TypeOK
    OBVIOUS
  <1>1. NoMessages \in MessageMaps /\ NoConsumers \in Consumers
    BY DEF NoMessages, MessageMaps, NoConsumers, Consumers
  <1>2. FreshOutputs \subseteq Output
    BY <1>1 DEF FreshOutputs, Output
  <1>3. outs \in [Outputs -> Output]
    BY <1>2 DEF Init
  <1>4. QED
    BY <1>1, <1>3 DEF Init, TypeOK, Result, Outcomes

\* The value of each call's return has its type.
LEMMA NextType == TypeOK /\ [Next]_vars => TypeOK'
  <1> SUFFICES ASSUME TypeOK, [Next]_vars PROVE TypeOK'
    OBVIOUS
  <1> USE DEF TypeOK
  <1>1. outs' \in [Outputs -> Output]
    BY NextOutStep
  <1>2. CASE \E m \in Methods : set_rgb_close_method(m)
    BY <1>1, <1>2 DEF set_rgb_close_method, Returns, Result, Outcomes
  <1>3. CASE set_as_unmodifiable
    BY <1>1, <1>3 DEF set_as_unmodifiable, Returns, Result, Outcomes
  <1>4. ASSUME NEW t \in OpIds, NEW r \in SUBSET Seals, push_rgb_transition(t, r)
        PROVE  TypeOK'
    <2>1. CASE push_too_big(t, r)
      BY <1>1, <2>1 DEF push_too_big, PushReturns, Result, Outcomes
    <2>2. CASE push_double_spend(t, r)
      <3>1. consumed_by' \in [ContractIds -> Consumers]
        <4>1. PICK o \in inputs_of[t] :
                 consumed_by' = WithConsumer(t, {i \in inputs_of[t] : i < o})
          BY <2>2 DEF push_double_spend
        <4>2. {i \in inputs_of[t] : i < o} \in SUBSET Opouts
          BY TransitionAssumption
        <4>3. QED
          BY <4>1, <4>2, WithConsumerLemma
      <3>2. QED
        BY <1>1, <2>2, <3>1 DEF push_double_spend, StoreTransition, PushReturns, Result, Outcomes
    <2>3. CASE push_ok(t, r)
      <3>1. inputs_of[t] \in SUBSET Opouts
        BY TransitionAssumption
      <3>2. consumed_by' \in [ContractIds -> Consumers]
        BY <2>3, <3>1, WithConsumerLemma DEF push_ok
      <3>3. QED
        BY <1>1, <2>3, <3>2 DEF push_ok, StoreTransition, PushReturns, Result, Outcomes
    <2>4. QED
      BY <1>4, <2>1, <2>2, <2>3 DEF push_rgb_transition
  <1>5. CASE \E i \in Outputs, p \in Foreign, m \in ForeignMsgs : set_mpc_message(i, p, m)
    BY <1>1, <1>5 DEF set_mpc_message, Returns, Result, Outcomes
  <1>6. CASE rgb_commit
    <2>1. fascia' \in Fascia \cup {None}
      <3>1. CASE commit_ok
        <4>1. KnownTransitions \in SUBSET OpIds
          BY DEF KnownTransitions
        <4>2. QED
          BY <3>1, <4>1, CommitOkStep DEF Fascia
      <3>2. CASE UNCHANGED fascia
        BY <3>2
      <3>3. QED
        BY <1>6, <3>1, <3>2 DEF rgb_commit, commit_no_method, commit_no_host,
           commit_message_refused, commit_no_contracts, commit_modifiable, commit_mpc_fails,
           commit_prohibited, commit_tap_tree, commit_no_internal_key
    <2>2. \E out \in Outcomes : CommitReturns(out)
      BY <1>6 DEF rgb_commit, commit_no_method, commit_no_host,
         commit_message_refused, commit_no_contracts, commit_modifiable, commit_mpc_fails,
         commit_prohibited, commit_tap_tree, commit_no_internal_key, commit_ok, Outcomes
    <2>3. QED
      BY <1>1, <2>1, <2>2 DEF CommitReturns, Returns, Result, Outcomes
  <1>7. CASE UNCHANGED vars
    BY <1>7 DEF vars
  <1>8. QED
    BY <1>2, <1>3, <1>4, <1>5, <1>6, <1>7 DEF Next

\* Every reachable PSBT is well typed: no call, failed or not, leaves a key
\* with a value another call could not read back.
THEOREM TypeCorrect == Spec => []TypeOK
  BY InitType, NextType, PTL DEF Spec
-----------------------------------------------------------------------------
(* The claims on allocations.                                              *)

\* ConsumersComplete and ClaimsBacked need nothing but each other's facts
\* about the three ways a push can end.
Claims == ConsumersComplete /\ ClaimsBacked

\* A push preserves the claims; the other calls do not touch them.
LEMMA NextClaims == TypeOK /\ Claims /\ [Next]_vars => Claims'
  <1> SUFFICES ASSUME TypeOK, Claims, [Next]_vars PROVE Claims'
    OBVIOUS
  <1>1. CASE UNCHANGED <<transitions, consumed_by, failed_push>>
    BY <1>1 DEF Claims, ConsumersComplete, ClaimsBacked
  <1>2. ASSUME NEW t \in OpIds, NEW r \in SUBSET Seals, push_rgb_transition(t, r)
        PROVE  Claims'
    <2>1. CASE push_too_big(t, r)
      BY <2>1 DEF push_too_big, Claims, ConsumersComplete, ClaimsBacked
    <2>2. ASSUME NEW os \in SUBSET inputs_of[t], consumed_by' = WithConsumer(t, os),
                 StoreTransition(t, r)
          PROVE  ClaimsBacked'
      <3>1. contract_of[t] \in ContractIds /\ os \in SUBSET Opouts
        BY TransitionAssumption
      <3>2. \A c \in ContractIds, o \in Opouts : consumed_by'[c][o] =
                IF c = contract_of[t] /\ o \in os THEN t ELSE consumed_by[c][o]
        BY <2>2, <3>1, WithConsumerLemma
      <3>3. \A u \in OpIds : transitions[u] # None => transitions'[u] # None
        BY <2>2 DEF StoreTransition, TypeOK
      <3>4. transitions'[t] # None
        BY <2>2, NoneAssumption DEF StoreTransition, TypeOK
      <3>5. SUFFICES ASSUME NEW c \in ContractIds, NEW o \in Opouts, consumed_by'[c][o] # None
                     PROVE  /\ contract_of[consumed_by'[c][o]] = c
                            /\ o \in inputs_of[consumed_by'[c][o]]
                            /\ transitions'[consumed_by'[c][o]] # None
        BY DEF ClaimsBacked
      <3>6. CASE c = contract_of[t] /\ o \in os
        BY <3>2, <3>4, <3>6
      <3>7. CASE ~ (c = contract_of[t] /\ o \in os)
        <4>1. consumed_by'[c][o] = consumed_by[c][o]
          BY <3>2, <3>7
        <4>2. consumed_by[c][o] \in OpIds
          BY <3>5, <4>1 DEF TypeOK, Consumers
        <4>3. QED
          BY <3>3, <3>5, <4>1, <4>2 DEF Claims, ClaimsBacked
      <3>8. QED
        BY <3>6, <3>7
    <2>3. CASE push_double_spend(t, r)
      <3>1. PICK o \in inputs_of[t] :
               consumed_by' = WithConsumer(t, {i \in inputs_of[t] : i < o})
        BY <2>3 DEF push_double_spend
      <3>2. ClaimsBacked'
        BY <2>2, <2>3, <3>1 DEF push_double_spend
      <3>3. QED
        BY <2>3, <3>2 DEF push_double_spend, Claims, ConsumersComplete
    <2>4. CASE push_ok(t, r)
      <3>1. ClaimsBacked'
        BY <2>2, <2>4 DEF push_ok
      <3>2. ASSUME ~ failed_push, NEW u \in OpIds, transitions'[u] # None,
                   NEW o \in inputs_of[u]
            PROVE  consumed_by'[contract_of[u]][o] = u
        <4>1. contract_of[u] \in ContractIds /\ o \in Opouts /\ inputs_of[t] \in SUBSET Opouts
          BY TransitionAssumption
        <4>2. consumed_by'[contract_of[u]][o] =
                IF contract_of[u] = contract_of[t] /\ o \in inputs_of[t]
                  THEN t ELSE consumed_by[contract_of[u]][o]
          BY <2>4, <4>1, WithConsumerLemma DEF push_ok
        <4>3. CASE u = t
          BY <4>2, <4>3, <3>2
        <4>4. CASE u # t
          <5>1. transitions[u] # None
            BY <2>4, <3>2, <4>4 DEF push_ok, StoreTransition, TypeOK
          <5>2. consumed_by[contract_of[u]][o] = u
            BY <3>2, <5>1 DEF Claims, ConsumersComplete
          <5>3. ~ (contract_of[u] = contract_of[t] /\ o \in inputs_of[t])
            BY <2>4, <4>4, <5>2, NoneAssumption DEF push_ok, DoubleSpent
          <5>4. QED
            BY <4>2, <5>2, <5>3
        <4>5. QED
          BY <4>3, <4>4
      <3>3. failed_push' = failed_push
        BY <2>4 DEF push_ok
      <3>4. QED
        BY <3>1, <3>2, <3>3 DEF Claims, ConsumersComplete
    <2>5. QED
      BY <1>2, <2>1, <2>3, <2>4 DEF push_rgb_transition
  <1>3. QED
    BY <1>1, <1>2 DEF Next, vars, set_rgb_close_method, set_as_unmodifiable, set_mpc_message,
       rgb_commit, commit_no_method, commit_no_host, commit_message_refused,
       commit_no_contracts, commit_modifiable, commit_mpc_fails, commit_prohibited,
       commit_tap_tree, commit_no_internal_key, commit_ok, CommitReturns

\* Both hold in every reachable state.
LEMMA ClaimsInvariant == Spec => []Claims
  <1>1. Init => Claims
    BY DEF Init, Claims, ConsumersComplete, ClaimsBacked, NoConsumers
  <1>2. QED
    BY <1>1, NextClaims, TypeCorrect, PTL DEF Spec

\* Unless a push_rgb_transition failed, every stored transition owns all of
\* its inputs and no input has two consumers, for every batch of transitions
\* pushed in every order.
THEOREM ClaimsComplete == Spec => []ConsumersComplete
  BY ClaimsInvariant, PTL DEF Claims

\* Also after pushes that failed half-way, whoever set_rgb_contract_consumer
\* recorded for an input is a stored transition of that contract that spends
\* it, so that rgb_bundles finds it.
THEOREM ClaimsAreBacked == Spec => []ClaimsBacked
  BY ClaimsInvariant, PTL DEF Claims
-----------------------------------------------------------------------------
(* The commitment.                                                         *)

\* A script that carries a commitment carries the MPC commitment of its
\* output, an output holds messages only of contracts with consumers, and
\* the output of the fascia is still the first proper one.
ScriptsCommitted ==
    \A i \in Outputs : outs[i].script # None => outs[i].script = outs[i].mpc_commitment
MessagesBacked ==
    \A i \in Outputs, c \in ContractIds :
        outs[i].mpc_message[c] # None => c \in Contracts
FasciaHost ==
    fascia # None => close_method # None /\ IsFirst(fascia.vout, ProperOutputs)

\* The inductive invariant.
Anchoring ==
    /\ CommitmentCoversMessages
    /\ ScriptsCommitted
    /\ MessagesBacked
    /\ FasciaHost
    /\ FasciaAnchored

\* Consumers are only ever added.
LEMMA ContractsGrow ==
    ASSUME TypeOK, [Next]_vars
    PROVE  Contracts \subseteq Contracts'
  <1>1. CASE UNCHANGED consumed_by
    BY <1>1 DEF Contracts
  <1>2. ASSUME NEW t \in OpIds, NEW os \in SUBSET Opouts, consumed_by' = WithConsumer(t, os)
        PROVE  Contracts \subseteq Contracts'
    <2>1. /\ consumed_by' \in [ContractIds -> Consumers]
          /\ \A c \in ContractIds, o \in Opouts : consumed_by'[c][o] =
                IF c = contract_of[t] /\ o \in os THEN t ELSE consumed_by[c][o]
      BY <1>2, WithConsumerLemma
    <2>2. ASSUME NEW c \in ContractIds, consumed_by[c] # NoConsumers
          PROVE  consumed_by'[c] # NoConsumers
      <3>1. PICK o \in Opouts : consumed_by[c][o] # None
        BY <2>2 DEF NoConsumers, TypeOK, Consumers
      <3>2. consumed_by'[c][o] # None
        BY <2>1, <3>1, NoneAssumption
      <3>3. QED
        BY <3>2 DEF NoConsumers
    <2>3. QED
      BY <2>2 DEF Contracts
  <1>3. ASSUME NEW t \in OpIds, NEW r \in SUBSET Seals, push_rgb_transition(t, r)
        PROVE  Contracts \subseteq Contracts'
    <2>1. \A o : {i \in inputs_of[t] : i < o} \in SUBSET Opouts /\ inputs_of[t] \in SUBSET Opouts
      BY TransitionAssumption
    <2>2. QED
      BY <1>1, <1>2, <1>3, <2>1 DEF push_rgb_transition, push_too_big, push_double_spend, push_ok
  <1>4. QED
    BY <1>1, <1>3 DEF Next, vars, set_rgb_close_method, set_as_unmodifiable, set_mpc_message,
       rgb_commit, commit_no_method, commit_no_host, commit_message_refused,
       commit_no_contracts, commit_modifiable, commit_mpc_fails, commit_prohibited,
       commit_tap_tree, commit_no_internal_key, commit_ok, CommitReturns

\* The first proper output stays the first: kinds and a close method once
\* set never change.
LEMMA ProperStable ==
    ASSUME TypeOK, [Next]_vars, close_method # None
    PROVE  close_method' = close_method /\ ProperOutputs' = ProperOutputs
  <1>1. close_method' = close_method
    BY DEF Next, vars, set_rgb_close_method, set_as_unmodifiable, set_mpc_message,
       push_rgb_transition, push_too_big, push_double_spend, push_ok,
       rgb_commit, commit_no_method, commit_no_host, commit_message_refused,
       commit_no_contracts, commit_modifiable, commit_mpc_fails, commit_prohibited,
       commit_tap_tree, commit_no_internal_key, commit_ok, CommitReturns
  <1>2. \A k \in Outputs : outs'[k].kind = outs[k].kind
    BY NextOutStep DEF OutStep
  <1>3. QED
    BY <1>1, <1>2 DEF ProperOutputs

\* After the fascia rgb_commit cannot succeed again: it would have to finalize
\* the output of the fascia a second time.
LEMMA CommitOnce ==
    ASSUME TypeOK, Anchoring, commit_ok
    PROVE  fascia = None
  <1> SUFFICES ASSUME fascia # None PROVE FALSE
    OBVIOUS
  <1>1. PICK i \in Outputs : IsFirst(i, ProperOutputs) /\ outs[i].mpc_commitment = None
    BY CommitOkStep
  <1>2. IsFirst(fascia.vout, ProperOutputs)
    BY DEF Anchoring, FasciaHost
  <1>3. i = fascia.vout
    BY <1>1, <1>2, NOutAssumption DEF IsFirst, ProperOutputs, Outputs
  <1>4. outs[i].script = fascia.anchor /\ fascia.anchor # None
    BY <1>3, NoneAssumption DEF Anchoring, FasciaAnchored, TypeOK, Fascia
  <1>5. QED
    BY <1>1, <1>4 DEF Anchoring, ScriptsCommitted

\* The messages that a successful rgb_commit commits to are those of its
\* bundles.
LEMMA CommitOkAnchored ==
    ASSUME TypeOK, Anchoring, commit_ok
    PROVE  FasciaAnchored' /\ FasciaHost'
  <1>1. PICK i \in Outputs, j \in Outputs :
           /\ outs' \in [Outputs -> Output]
           /\ IsFirst(i, ProperOutputs) /\ IsFirst(j, Hosts) /\ outs[i].host
           /\ Refusals(j) = {} /\ close_method # None
           /\ outs[i].mpc_commitment = None
           /\ outs'[i].script = Embedded(j, Contracts)[i].mpc_message
           /\ fascia' = [bundles |-> consumed_by, known |-> KnownTransitions,
                         anchor |-> Embedded(j, Contracts)[i].mpc_message, vout |-> i]
    BY CommitOkStep
  <1>2. i = j
    <2>1. i \in Hosts /\ j \in ProperOutputs
      BY <1>1 DEF Hosts, IsFirst
    <2>2. QED
      BY <1>1, <2>1, NOutAssumption DEF IsFirst, Outputs
  <1> DEFINE e == Embedded(j, Contracts)[i]
  <1>3. ASSUME NEW c \in ContractIds
        PROVE  e.mpc_message[c] = IF consumed_by[c] = NoConsumers THEN None ELSE consumed_by[c]
    <2>1. e.mpc_message[c] = IF c \in Contracts /\ outs[i].mpc_message[c] = None
                               THEN consumed_by[c] ELSE outs[i].mpc_message[c]
      BY <1>2, EmbeddedLemma DEF Protocols
    <2>2. CASE c \in Contracts
      <3>1. outs[i].mpc_message[c] \in {None, consumed_by[c]}
        BY <1>1, <1>2, <2>2 DEF Refusals, MessageRefused
      <3>2. QED
        BY <2>1, <2>2, <3>1 DEF Contracts
    <2>3. CASE c \notin Contracts
      BY <2>1, <2>3 DEF Contracts, Anchoring, MessagesBacked
    <2>4. QED
      BY <2>2, <2>3
  <1>4. FasciaAnchored'
    BY <1>1, <1>3 DEF FasciaAnchored, NoConsumers
  <1>5. close_method' = close_method /\ ProperOutputs' = ProperOutputs
    BY <1>1, ProperStable DEF Next, rgb_commit
  <1>6. QED
    BY <1>1, <1>4, <1>5 DEF FasciaHost, IsFirst

\* A call that does not return a new fascia keeps the anchor of the old one.
LEMMA FasciaKept ==
    ASSUME TypeOK, Anchoring, [Next]_vars, UNCHANGED fascia
    PROVE  FasciaAnchored' /\ FasciaHost'
  <1> SUFFICES ASSUME fascia # None PROVE FasciaAnchored' /\ FasciaHost'
    BY DEF FasciaAnchored, FasciaHost
  <1> DEFINE v == fascia.vout
  <1>1. v \in Outputs /\ fascia.anchor # None
    BY NoneAssumption DEF TypeOK, Fascia
  <1>2. outs[v].script = fascia.anchor /\ outs[v].mpc_commitment # None
    BY <1>1 DEF Anchoring, FasciaAnchored, ScriptsCommitted
  <1>3. outs'[v].script = outs[v].script
    BY <1>1, <1>2, NextOutStep DEF OutStep
  <1>4. close_method' = close_method /\ ProperOutputs' = ProperOutputs
    BY ProperStable DEF Anchoring, FasciaHost
  <1>5. QED
    BY <1>2, <1>3, <1>4 DEF Anchoring, FasciaAnchored, FasciaHost, NoConsumers, IsFirst

\* The inductive step.
LEMMA NextAnchoring == TypeOK /\ Anchoring /\ [Next]_vars => Anchoring'
  <1> SUFFICES ASSUME TypeOK, Anchoring, [Next]_vars PROVE Anchoring'
    OBVIOUS
  <1>1. \A k \in Outputs : OutStep(outs[k], outs'[k])
    BY NextOutStep
  <1>2. CommitmentCoversMessages'
    BY <1>1 DEF OutStep, Anchoring, CommitmentCoversMessages
  <1>3. ScriptsCommitted'
    BY <1>1 DEF OutStep, Anchoring, ScriptsCommitted
  <1>4. MessagesBacked'
    BY <1>1, ContractsGrow DEF OutStep, Anchoring, MessagesBacked
  <1>5. FasciaAnchored' /\ FasciaHost'
    <2>1. CASE commit_ok
      BY <2>1, CommitOkAnchored
    <2>2. CASE UNCHANGED fascia
      BY <2>2, FasciaKept
    <2>3. QED
      BY <2>1, <2>2 DEF Next, vars, set_rgb_close_method, set_as_unmodifiable,
         set_mpc_message, push_rgb_transition, push_too_big, push_double_spend, push_ok,
         rgb_commit, commit_no_method, commit_no_host, commit_message_refused,
         commit_no_contracts, commit_modifiable, commit_mpc_fails, commit_prohibited,
         commit_tap_tree, commit_no_internal_key
  <1>6. QED
    BY <1>2, <1>3, <1>4, <1>5 DEF Anchoring

\* Initially nothing is committed.
LEMMA InitAnchoring == Init => Anchoring
  <1> SUFFICES ASSUME Init PROVE Anchoring
    OBVIOUS
  <1>1. \A i \in Outputs : FreshOutput(outs[i])
    BY DEF Init
  <1>2. \A i \in Outputs : /\ outs[i].mpc_commitment = None /\ outs[i].script = None
                           /\ outs[i].mpc_message = NoMessages
    BY <1>1 DEF FreshOutput
  <1>3. \A i \in Outputs, c \in ContractIds : outs[i].mpc_message[c] = None
    BY <1>2 DEF NoMessages, Protocols
  <1>4. fascia = None
    BY DEF Init
  <1>5. QED
    BY <1>2, <1>3, <1>4 DEF Anchoring, CommitmentCoversMessages, ScriptsCommitted,
       MessagesBacked, FasciaHost, FasciaAnchored

\* The inductive invariant holds in every reachable state.
LEMMA AnchoringInvariant == Spec => []Anchoring
  BY TypeCorrect, InitAnchoring, NextAnchoring, PTL DEF Spec

\* The script of the fascia's output commits to exactly the bundles of the
\* fascia, whatever calls of rgb_commit failed before and whatever came after.
THEOREM Anchored == Spec => []FasciaAnchored
  BY AnchoringInvariant, PTL DEF Anchoring

\* Once mpc_commit ran on an output, set_mpc_message lets nothing in that its
\* commitment does not cover.
THEOREM CommitmentsCoverMessages == Spec => []CommitmentCoversMessages
  BY AnchoringInvariant, PTL DEF Anchoring

\* A call that changes a script is the first rgb_commit that succeeds.
LEMMA ScriptStep ==
    ASSUME TypeOK, Anchoring, [Next]_vars,
           NEW i \in Outputs, outs'[i].script # outs[i].script
    PROVE  commit_ok /\ fascia = None /\ fascia' # None
  <1>1. commit_ok
    <2>1. CASE UNCHANGED outs
      BY <2>1
    <2>2. CASE \E k \in Outputs, p \in Foreign, m \in ForeignMsgs : set_mpc_message(k, p, m)
      BY <2>2, ForeignStep
    <2>3. CASE rgb_commit
      BY <2>3, FailedCommitStep DEF rgb_commit
    <2>4. QED
      BY <2>1, <2>2, <2>3 DEF Next, vars, set_rgb_close_method, set_as_unmodifiable,
         push_rgb_transition, push_too_big, push_double_spend, push_ok
  <1>2. fascia = None
    BY <1>1, CommitOnce
  <1>3. fascia' \in Fascia
    BY <1>1, CommitOkStep DEF TypeOK, Fascia, KnownTransitions
  <1>4. QED
    BY <1>1, <1>2, <1>3, FasciaAssumption

\* The txid moves only in the rgb_commit that returns the fascia, and no
\* second rgb_commit can return one.
THEOREM TxidIsFixed == Spec => TxidFixed
  <1>1. ASSUME TypeOK, Anchoring, [Next]_vars
        PROVE  [(\E i \in Outputs : outs'[i].script # outs[i].script)
                   => fascia = None /\ fascia' # None]_vars
    BY <1>1, ScriptStep
  <1>2. QED
    BY <1>1, TypeCorrect, AnchoringInvariant, PTL DEF Spec, TxidFixed
-----------------------------------------------------------------------------
(* The refinement of SealedClaims.                                         *)

\* A script commits to something only if a fascia was returned.
Scripted == \A i \in Outputs : outs[i].script # None => fascia # None

\* The inductive step for Scripted.
LEMMA NextScripted == TypeOK /\ Anchoring /\ Scripted /\ [Next]_vars => Scripted'
  <1> SUFFICES ASSUME TypeOK, Anchoring, Scripted, [Next]_vars,
                      NEW i \in Outputs, outs'[i].script # None
               PROVE  fascia' # None
    BY DEF Scripted
  <1>1. CASE outs'[i].script # outs[i].script
    BY <1>1, ScriptStep
  <1>2. CASE commit_ok
    <2>1. fascia' \in Fascia
      BY <1>2, CommitOkStep DEF TypeOK, Fascia, KnownTransitions
    <2>2. QED
      BY <2>1, FasciaAssumption
  <1>3. CASE outs'[i].script = outs[i].script /\ UNCHANGED fascia
    BY <1>3 DEF Scripted
  <1>4. QED
    BY <1>1, <1>2, <1>3 DEF Next, vars, set_rgb_close_method, set_as_unmodifiable,
       set_mpc_message, push_rgb_transition, push_too_big, push_double_spend, push_ok,
       rgb_commit, commit_no_method, commit_no_host, commit_message_refused,
       commit_no_contracts, commit_modifiable, commit_mpc_fails, commit_prohibited,
       commit_tap_tree, commit_no_internal_key

\* Scripts that stay keep what the transaction commits to.
LEMMA SealedKept ==
    ASSUME \A i \in Outputs : outs'[i].script = outs[i].script
    PROVE  Sealed' = Sealed
  <1>1. \A i \in Outputs : CommittedClaims(outs[i])' = CommittedClaims(outs[i])
    BY DEF CommittedClaims, NoConsumers
  <1>2. QED
    BY <1>1 DEF Sealed

\* Claiming inputs that are free, or claimed by the same transition already,
\* is a Claim of those that are free.
LEMMA ClaimStep ==
    ASSUME TypeOK, NEW t \in OpIds, NEW os \in SUBSET Opouts,
           \A o \in os : consumed_by[contract_of[t]][o] \in {None, t},
           consumed_by' = WithConsumer(t, os), UNCHANGED outs
    PROVE  Abstract!Next
  <1> DEFINE c == contract_of[t]
             free == {o \in os : consumed_by[c][o] = None}
             row == [o \in Opouts |-> IF o \in free THEN t ELSE consumed_by[c][o]]
  <1>1. c \in ContractIds /\ free \in SUBSET Opouts
    BY TransitionAssumption
  <1>2. consumed_by \in [ContractIds -> Consumers] /\ consumed_by[c] \in Consumers
    BY <1>1 DEF TypeOK
  <1>3. row = [o \in Opouts |-> IF o \in os THEN t ELSE consumed_by[c][o]]
    OBVIOUS
  <1>4. consumed_by' = [consumed_by EXCEPT ![c] = row]
    BY <1>3 DEF WithConsumer
  <1>5. UNCHANGED Sealed
    BY SealedKept
  <1>6. Abstract!Claim(c, t, free)
    BY <1>4, <1>5 DEF Abstract!Claim
  <1>7. QED
    BY <1>1, <1>6 DEF Abstract!Next

\* Every push is a Claim or changes nothing that SealedClaims sees.
LEMMA PushStep ==
    ASSUME TypeOK, NEW t \in OpIds, NEW r \in SUBSET Seals, push_rgb_transition(t, r)
    PROVE  [Abstract!Next]_(Abstract!vars)
  <1>1. CASE push_too_big(t, r)
    BY <1>1, SealedKept DEF push_too_big, Abstract!vars
  <1>2. CASE push_ok(t, r)
    <2>1. inputs_of[t] \in SUBSET Opouts
      BY TransitionAssumption
    <2>2. \A o \in inputs_of[t] : consumed_by[contract_of[t]][o] \in {None, t}
      BY <1>2 DEF push_ok, DoubleSpent
    <2>3. QED
      BY <1>2, <2>1, <2>2, ClaimStep DEF push_ok
  <1>3. CASE push_double_spend(t, r)
    <2>1. PICK o \in inputs_of[t] :
             /\ IsFirst(o, DoubleSpent(t))
             /\ consumed_by' = WithConsumer(t, {i \in inputs_of[t] : i < o})
      BY <1>3 DEF push_double_spend
    <2> DEFINE os == {i \in inputs_of[t] : i < o}
    <2>2. os \in SUBSET Opouts /\ inputs_of[t] \in SUBSET Opouts
      BY TransitionAssumption
    <2>3. ASSUME NEW i \in os PROVE i \notin DoubleSpent(t)
      <3>1. i < o /\ i \in Nat /\ o \in Nat
        BY <2>2, OrderedAssumption
      <3>2. ~ o <= i
        BY <3>1
      <3>3. QED
        BY <2>1, <3>2 DEF IsFirst
    <2>4. \A i \in os : consumed_by[contract_of[t]][i] \in {None, t}
      BY <2>3 DEF DoubleSpent
    <2>5. QED
      BY <1>3, <2>1, <2>2, <2>4, ClaimStep DEF push_double_spend
  <1>4. QED
    BY <1>1, <1>2, <1>3 DEF push_rgb_transition

\* The successful rgb_commit is the Seal.
LEMMA SealStep ==
    ASSUME TypeOK, Anchoring, Scripted, commit_ok
    PROVE  Abstract!Seal
  <1>1. PICK i \in Outputs, j \in Outputs :
           /\ outs'[i].script = Embedded(j, Contracts)[i].mpc_message
           /\ Embedded(j, Contracts)[i].mpc_message \in MessageMaps
           /\ \A k \in Outputs : k # i => outs'[k].script = outs[k].script
           /\ fascia' = [bundles |-> consumed_by, known |-> KnownTransitions,
                         anchor |-> Embedded(j, Contracts)[i].mpc_message, vout |-> i]
    BY CommitOkStep
  <1>2. fascia = None /\ FasciaAnchored' /\ fascia' # None
    <2>1. fascia' \in Fascia
      BY CommitOkStep DEF TypeOK, Fascia, KnownTransitions
    <2>2. QED
      BY <2>1, CommitOnce, CommitOkAnchored, FasciaAssumption
  <1>3. \A k \in Outputs : outs[k].script = None
    BY <1>2 DEF Scripted
  <1>4. outs'[i].script # None /\ \A k \in Outputs : k # i => outs'[k].script = None
    BY <1>1, <1>3, NoneAssumption
  <1>5. \A c \in ContractIds : outs'[i].script[c] =
            IF consumed_by[c] = NoConsumers THEN None ELSE consumed_by[c]
    BY <1>1, <1>2 DEF FasciaAnchored, NoConsumers
  <1>6. \A c \in ContractIds : consumed_by[c] # None
    BY NoneAssumption DEF TypeOK
  <1>7. CommittedClaims(outs[i])' = consumed_by
    BY <1>5, <1>6 DEF CommittedClaims, NoConsumers, TypeOK
  <1>8. Sealed = {} /\ Sealed' = {consumed_by}
    <2>1. {k \in Outputs : outs[k].script # None} = {}
      BY <1>3
    <2>2. {k \in Outputs : outs'[k].script # None} = {i}
      BY <1>4
    <2>3. QED
      BY <1>7, <2>1, <2>2 DEF Sealed
  <1>9. consumed_by # Abstract!Unclaimed
    <2>1. Contracts # {}
      BY DEF commit_ok, DbcCommit, BundlesToMpc
    <2>2. QED
      BY <2>1 DEF Contracts, Abstract!Unclaimed, NoConsumers
  <1>10. UNCHANGED consumed_by
    BY DEF commit_ok, CommitReturns
  <1>11. QED
    BY <1>8, <1>9, <1>10 DEF Abstract!Seal

\* The RGB data of a PSBT implements SealedClaims: whatever fails or is
\* retried, no push of a transition takes over an input, and rgb_commit makes
\* the transaction commit once, to exactly the claims made by then.
THEOREM RefinesSealedClaims == Spec => SealsClaims
  <1>1. Init => Scripted /\ Abstract!Init
    <2> SUFFICES ASSUME Init PROVE Scripted /\ Abstract!Init
      OBVIOUS
    <2>1. \A i \in Outputs : outs[i].script = None
      BY DEF Init, FreshOutput
    <2>2. Sealed = {}
      BY <2>1 DEF Sealed
    <2>3. QED
      BY <2>1, <2>2 DEF Scripted, Init, Abstract!Init, Abstract!Unclaimed, NoConsumers
  <1>2. TypeOK /\ Anchoring /\ Scripted /\ [Next]_vars => [Abstract!Next]_(Abstract!vars)
    <2> SUFFICES ASSUME TypeOK, Anchoring, Scripted, [Next]_vars
                 PROVE  [Abstract!Next]_(Abstract!vars)
      OBVIOUS
    <2>1. CASE commit_ok
      BY <2>1, SealStep DEF Abstract!Next
    <2>2. CASE \E t \in OpIds, r \in SUBSET Seals : push_rgb_transition(t, r)
      BY <2>2, PushStep
    <2>3. CASE UNCHANGED consumed_by /\ ~ commit_ok
      <3>1. \A i \in Outputs : outs'[i].script = outs[i].script
        BY <2>3, ScriptStep
      <3>2. QED
        BY <2>3, <3>1, SealedKept DEF Abstract!vars
    <2>4. QED
      BY <2>1, <2>2, <2>3 DEF Next, vars, set_rgb_close_method, set_as_unmodifiable,
         set_mpc_message, rgb_commit, commit_no_method, commit_no_host,
         commit_message_refused, commit_no_contracts, commit_modifiable, commit_mpc_fails,
         commit_prohibited, commit_tap_tree, commit_no_internal_key, CommitReturns
  <1>3. QED
    BY <1>1, <1>2, NextScripted, TypeCorrect, AnchoringInvariant, PTL
       DEF Spec, SealsClaims, Abstract!Spec
=============================================================================
