------------------------ MODULE VirtualCircuitProofs ------------------------
(***************************************************************************)
(* Proofs about VirtualCircuit, for either role and for any sets of ids,   *)
(* data types, counts, native types, priorities and versions.              *)
(***************************************************************************)
EXTENDS VirtualCircuit, TLAPS

\* What a machine does with a command is a matter of the two tables.
LEMMA TargetType ==
  ASSUME NEW st \in ChannelStates, NEW t
  PROVE  ChannelTarget(st, t) \in ChannelStates
BY DEF ChannelTarget, ChannelMoves, ChannelStates

LEMMA RoleFacts == /\ TheirRole \in Roles
                   /\ TheirRole # OurRole
                   /\ Roles = {"CLIENT", "SERVER"}
                   /\ \/ OurRole = "CLIENT" /\ TheirRole = "SERVER"
                      \/ OurRole = "SERVER" /\ TheirRole = "CLIENT"
BY RoleAssumption DEF TheirRole, Roles, CLIENT, SERVER

LEMMA FireType ==
  ASSUME NEW st \in [Roles -> ChannelStates], NEW role \in Roles, NEW t
  PROVE  Fire(st, role, t) \in [Roles -> ChannelStates]
<1>1. [st EXCEPT ![role] = ChannelTarget(st[role], t)]
        \in [Roles -> ChannelStates]
  BY TargetType
<1>2. \A r \in Roles, x \in ChannelStates : STT(r, x) \in ChannelStates
  BY DEF STT, ChannelStates
<1>. QED  BY <1>1, <1>2 DEF Fire, Update

LEMMA ExceptionType ==
  ASSUME NEW role, NEW t
  PROVE  get_exception(role, t) \in {"LocalProtocolError",
                                     "RemoteProtocolError"}
BY DEF get_exception

LEMMA ProcessedType ==
  ASSUME NEW st \in [Roles -> ChannelStates], NEW t
  PROVE  /\ Processed(st, t).states \in [Roles -> ChannelStates]
         /\ Processed(st, t).error \in Errors \cup {"none"}
<1>1. Fire(st, OurRole, t) \in [Roles -> ChannelStates]
  BY FireType, RoleAssumption
<1>2. Fire(Fire(st, OurRole, t), TheirRole, t) \in [Roles -> ChannelStates]
  BY <1>1, FireType, RoleFacts
<1>. QED  BY <1>1, <1>2, ExceptionType DEF Processed, Errors

LEMMA CircuitTargetType ==
  ASSUME NEW st \in CircuitStates, NEW t
  PROVE  CircuitTarget(st, t) \in CircuitStates
BY DEF CircuitTarget, CircuitMoves, CircuitStates

LEMMA TakesType ==
  ASSUME TypeOK, NEW c \in Cids, NEW t \in CommandTypes,
         Takes(c, t) \/ Raises(c, t) \/ Refuses(c, t)
  PROVE  /\ chan_states' \in [Cids -> [Roles -> ChannelStates]]
         /\ outcome' \in [command : CommandTypes \cup {"none"},
                          error : Errors \cup {"none"}]
<1>1. chan_states[c] \in [Roles -> ChannelStates]
  BY DEF TypeOK
<1>2. /\ Processed(chan_states[c], t).states \in [Roles -> ChannelStates]
      /\ Processed(chan_states[c], t).error \in Errors \cup {"none"}
  BY <1>1, ProcessedType
<1>3. chan_states' = [chan_states EXCEPT
                        ![c] = Processed(chan_states[c], t).states]
  BY DEF Takes, Refuses, Raises
<1>4. \/ outcome' = [command |-> "none", error |-> "none"]
      \/ outcome' = [command |-> t, error |-> Processed(chan_states[c], t).error]
  BY DEF Takes, Refuses, Raises, Raise, Ok
<1>5. chan_states' \in [Cids -> [Roles -> ChannelStates]]
  BY <1>2, <1>3 DEF TypeOK
<1>6. outcome' \in [command : CommandTypes \cup {"none"},
                    error : Errors \cup {"none"}]
  BY <1>2, <1>4
<1>. QED  BY <1>5, <1>6

LEMMA RaiseType ==
  ASSUME NEW t \in CommandTypes, NEW e \in Errors,
         outcome' = Ok \/ Raise(t, e)
  PROVE  outcome' \in [command : CommandTypes \cup {"none"},
                       error : Errors \cup {"none"}]
BY DEF Ok, Raise

LEMMA CommandFacts ==
  /\ CircuitCommands \subseteq CommandTypes
  /\ ChannelCommands \subseteq CommandTypes
  /\ VersionCommands \subseteq CommandTypes
  /\ IoRequests \cup {"WriteRequest"} \subseteq ChannelCommands
  /\ IoResponses \subseteq ChannelCommands
BY DEF CommandTypes, ChannelCommands, IoRequests, IoResponses

LEMMA NoneFacts ==
  /\ None \notin Cids
  /\ None \notin Sids
  /\ \A e \in EventAdds : e # NoSub
  /\ NoSub.sid = None
BY NoneAssumption DEF EventAdds, NoSub

(***************************************************************************)
(* Type correctness.                                                       *)
(***************************************************************************)
LEMMA InitType == Init => TypeOK
<1>. SUFFICES ASSUME Init PROVE TypeOK
  OBVIOUS
<1>1. circuit_states \in [Roles -> CircuitStates]
  BY DEF Init, InitialCircuit, Roles, CLIENT, SERVER, CircuitStates
<1>2. InitialChannel \in [Roles -> ChannelStates]
  BY DEF InitialChannel, Roles, CLIENT, SERVER, ChannelStates
<1>3. outcome \in [command : CommandTypes \cup {"none"},
                   error : Errors \cup {"none"}]
  BY DEF Init, Ok
<1>4. priority \in Priorities \cup {None}
  BY DEF Init
<1>. QED  BY <1>1, <1>2, <1>3, <1>4, VersionAssumption DEF Init, TypeOK

LEMMA CircuitCommandType ==
  ASSUME TypeOK, NEW t \in CommandTypes, CircuitTakes(t) \/ CircuitRefuses(t)
  PROVE  circuit_states' \in [Roles -> CircuitStates]
<1>1. \A r \in Roles : CircuitTarget(circuit_states[r], t) \in CircuitStates
  BY CircuitTargetType DEF TypeOK
<1>. QED  BY <1>1, RoleAssumption DEF CircuitTakes, CircuitRefuses, TypeOK

LEMMA CircuitRefusesType ==
  ASSUME TypeOK, NEW t \in CommandTypes, CircuitRefuses(t)
  PROVE  TypeOK'
<1>1. circuit_states' \in [Roles -> CircuitStates]
  BY CircuitCommandType
<1>2. outcome' \in [command : CommandTypes \cup {"none"},
                    error : Errors \cup {"none"}]
  BY ExceptionType, RaiseType DEF CircuitRefuses, Errors
<1>. QED  BY <1>1, <1>2
          DEF CircuitRefuses, TypeOK, objectVars, indexVars, subVars

LEMMA NegotiateType ==
  ASSUME TypeOK, NEW v \in Versions, Negotiate(v)
  PROVE  version' \in Versions /\ chan_version' \in [Cids -> Versions]
BY VersionAssumption DEF Negotiate, Min2, TypeOK

LEMMA NextType == TypeOK /\ [Next]_vars => TypeOK'
<1>. SUFFICES ASSUME TypeOK, [Next]_vars PROVE TypeOK'
  OBVIOUS
<1>. DEFINE OutcomeOK == outcome' \in [command : CommandTypes \cup {"none"},
                                       error : Errors \cup {"none"}]
<1>. USE CommandFacts, NoneFacts
<1>0. CASE UNCHANGED vars
  BY <1>0 DEF TypeOK, vars, circuitVars, objectVars, indexVars, subVars
<1>1. CASE Disconnect
  <2>1. \A r \in Roles, x \in ChannelStates : STT(r, x) \in ChannelStates
    BY DEF STT, ChannelStates
  <2>2. chan_states' \in [Cids -> [Roles -> ChannelStates]]
    BY <1>1, <2>1 DEF Disconnect, TypeOK
  <2>3. circuit_states' \in [Roles -> CircuitStates]
    BY <1>1 DEF Disconnect, CircuitStates
  <2>4. OutcomeOK
    BY <1>1 DEF Disconnect, Ok
  <2>. QED  BY <1>1, <2>2, <2>3, <2>4
            DEF Disconnect, TypeOK, indexVars, subVars
<1>2. ASSUME NEW t \in CircuitCommands, CircuitCommand(t)
      PROVE  TypeOK'
  <2>1. CASE CircuitRefuses(t)
    BY <2>1, CircuitRefusesType
  <2>2. CASE CircuitTakes(t) /\ outcome' = Ok
             /\ UNCHANGED <<priority, version, objectVars, indexVars, subVars>>
    BY <2>2, CircuitCommandType
       DEF TypeOK, Ok, objectVars, indexVars, subVars
  <2>. QED  BY <1>2, <2>1, <2>2 DEF CircuitCommand
<1>3. ASSUME NEW p \in Priorities, NEW v \in Versions, VersionRequest(p, v)
      PROVE  TypeOK'
  <2>. DEFINE t == "VersionRequest"
  <2>0. t \in CommandTypes
    BY DEF VersionCommands
  <2>1. CASE CircuitRefuses(t)
    BY <2>0, <2>1, CircuitRefusesType
  <2>2. CASE CircuitTakes(t) /\ priority' = p /\ Negotiate(v) /\ outcome' = Ok
             /\ UNCHANGED <<indexVars, subVars>>
    BY <2>0, <2>2, CircuitCommandType, NegotiateType
       DEF TypeOK, Ok, indexVars, subVars, Negotiate
  <2>3. CASE /\ CircuitTakes(t)
             /\ Raise(t, get_exception(OurRole, t))
             /\ UNCHANGED <<priority, version, objectVars, indexVars, subVars>>
    <3>1. OutcomeOK
      BY <2>0, <2>3, ExceptionType, RaiseType DEF Errors
    <3>. QED  BY <2>0, <2>3, <3>1, CircuitCommandType
              DEF TypeOK, objectVars, indexVars, subVars
  <2>. QED  BY <1>3, <2>1, <2>2, <2>3 DEF VersionRequest
<1>4. ASSUME NEW v \in Versions, VersionResponse(v)
      PROVE  TypeOK'
  <2>. DEFINE t == "VersionResponse"
  <2>0. t \in CommandTypes
    BY DEF VersionCommands
  <2>1. CASE CircuitRefuses(t)
    BY <2>0, <2>1, CircuitRefusesType
  <2>2. CASE /\ CircuitTakes(t)
             /\ IF v = 0 THEN UNCHANGED <<version, objectVars>>
                         ELSE Negotiate(v)
             /\ outcome' = Ok
             /\ UNCHANGED <<priority, indexVars, subVars>>
    BY <2>0, <2>2, CircuitCommandType, NegotiateType
       DEF TypeOK, Ok, objectVars, indexVars, subVars, Negotiate
  <2>. QED  BY <1>4, <2>1, <2>2 DEF VersionResponse
<1>5. ASSUME NEW c \in Cids, NewChannel(c)
      PROVE  TypeOK'
  <2>1. InitialChannel \in [Roles -> ChannelStates]
    BY DEF InitialChannel, Roles, CLIENT, SERVER, ChannelStates
  <2>. QED  BY <1>5, <2>1
            DEF NewChannel, TypeOK, Ok, circuitVars, indexVars, subVars
<1>6. ASSUME NEW c \in Cids, CreateChanRequest(c)
      PROVE  TypeOK'
  <2>. DEFINE st == IF c \notin channels THEN InitialChannel ELSE chan_states[c]
              p == Processed(st, "CreateChanRequest")
  <2>1. st \in [Roles -> ChannelStates]
    BY DEF InitialChannel, Roles, CLIENT, SERVER, ChannelStates, TypeOK
  <2>2. p.states \in [Roles -> ChannelStates] /\ p.error \in Errors \cup {"none"}
    BY <2>1, ProcessedType
  <2>3. "CreateChanRequest" \in CommandTypes
    BY DEF ChannelCommands
  <2>4. OutcomeOK
    BY <1>6, <2>2, <2>3 DEF CreateChanRequest, Ok, Raise
  <2>5. chan_states' \in [Cids -> [Roles -> ChannelStates]]
    BY <1>6, <2>2 DEF CreateChanRequest, TypeOK
  <2>. QED  BY <1>6, <2>4, <2>5
            DEF CreateChanRequest, TypeOK, circuitVars, indexVars, subVars
<1>7. ASSUME NEW c \in Cids, NEW s \in Sids, NEW n \in Natives,
             CreateChanResponse(c, s, n)
      PROVE  TypeOK'
  <2>. DEFINE t == "CreateChanResponse"
  <2>0. t \in CommandTypes
    BY DEF ChannelCommands
  <2>1. CASE Fails(t, "KeyError") /\ UNCHANGED channels_sid
    BY <1>7, <2>0, <2>1, RaiseType
       DEF CreateChanResponse, Fails, Errors, TypeOK, circuitVars, objectVars,
           subVars
  <2>2. CASE /\ Raises(c, t)
             /\ chan_native' = [chan_native EXCEPT ![c] = n]
             /\ UNCHANGED channels_sid
    BY <1>7, <2>0, <2>2, TakesType
       DEF CreateChanResponse, Raises, TypeOK, circuitVars, subVars
  <2>3. CASE /\ Takes(c, t)
             /\ chan_native' = [chan_native EXCEPT ![c] = n]
             /\ chan_sid' = [chan_sid EXCEPT ![c] = s]
             /\ chan_version' = [chan_version EXCEPT ![c] = version]
             /\ channels_sid' = [channels_sid EXCEPT ![s] = c]
             /\ UNCHANGED channels
    BY <1>7, <2>0, <2>3, TakesType
       DEF CreateChanResponse, TypeOK, circuitVars, subVars
  <2>. QED  BY <1>7, <2>1, <2>2, <2>3 DEF CreateChanResponse, NotesNative
<1>8. ASSUME NEW c \in Cids, NEW t \in ChannelCommands, ByCid(t, c)
      PROVE  TypeOK'
  <2>1. CASE Fails(t, "KeyError")
    BY <1>8, <2>1, RaiseType
       DEF ByCid, Fails, Errors, TypeOK, circuitVars, objectVars, indexVars,
           subVars
  <2>2. CASE /\ Takes(c, t) \/ Refuses(c, t)
             /\ UNCHANGED <<channels, chan_sid, chan_version, chan_native>>
    BY <1>8, <2>2, TakesType
       DEF ByCid, TypeOK, circuitVars, indexVars, subVars
  <2>. QED  BY <1>8, <2>1, <2>2 DEF ByCid, Refuses, Raises
<1>9. ASSUME NEW c \in Cids,
             NEW t \in {"ClearChannelResponse", "ServerDisconnResponse"},
             CloseResponse(t, c)
      PROVE  TypeOK'
  <2>0. t \in CommandTypes
    BY DEF ChannelCommands
  <2>1. CASE Fails(t, "KeyError") /\ UNCHANGED indexVars
    BY <1>9, <2>0, <2>1, RaiseType
       DEF CloseResponse, Fails, Errors, TypeOK, circuitVars, objectVars,
           indexVars, subVars
  <2>2. CASE Refuses(c, t) /\ UNCHANGED indexVars
    BY <1>9, <2>0, <2>2, TakesType
       DEF CloseResponse, Refuses, Raises, TypeOK, circuitVars, indexVars, subVars
  <2>3. CASE /\ Takes(c, t) /\ Forget(c)
             /\ UNCHANGED <<chan_sid, chan_version, chan_native>>
    BY <1>9, <2>0, <2>3, TakesType
       DEF CloseResponse, Forget, TypeOK, circuitVars, subVars
  <2>. QED  BY <1>9, <2>1, <2>2, <2>3 DEF CloseResponse
<1>10. ASSUME NEW t \in IoRequests \cup {"WriteRequest"}, NEW s \in Sids,
              NEW i \in Ioids, IoRequest(t, s, i)
       PROVE  TypeOK'
  <2>1. CASE Fails(t, get_exception(OurRole, t)) /\ UNCHANGED ioids
    BY <1>10, <2>1, RaiseType, ExceptionType
       DEF IoRequest, Fails, Errors, TypeOK, circuitVars, objectVars, subVars
  <2>2. CASE /\ channels_sid[s] # None
             /\ Takes(channels_sid[s], t) \/ Refuses(channels_sid[s], t)
             /\ \/ UNCHANGED ioids
                \/ ioids' = [ioids EXCEPT ![i] = channels_sid[s]]
             /\ UNCHANGED <<channels, chan_sid, chan_version, chan_native>>
    <3>1. channels_sid[s] \in Cids
      BY <2>2 DEF TypeOK
    <3>. QED  BY <1>10, <2>2, <3>1, TakesType
              DEF IoRequest, TypeOK, circuitVars, subVars
  <2>. QED  BY <1>10, <2>1, <2>2 DEF IoRequest, Refuses, Raises
<1>11. ASSUME NEW t \in IoResponses, NEW i \in Ioids, IoResponse(t, i)
       PROVE  TypeOK'
  <2>1. CASE Fails(t, get_exception(OurRole, t))
    BY <1>11, <2>1, RaiseType, ExceptionType
       DEF IoResponse, Fails, Errors, TypeOK, circuitVars, objectVars, subVars
  <2>2. CASE /\ ioids[i] # None
             /\ Takes(ioids[i], t) \/ Refuses(ioids[i], t)
             /\ UNCHANGED <<channels, chan_sid, chan_version, chan_native>>
    <3>1. ioids[i] \in Cids
      BY <2>2 DEF TypeOK
    <3>. QED  BY <1>11, <2>2, <3>1, TakesType
              DEF IoResponse, TypeOK, circuitVars, subVars
  <2>. QED  BY <1>11, <2>1, <2>2 DEF IoResponse, Refuses, Raises
<1>12. ASSUME NEW k \in Subids, NEW s \in Sids, NEW ty \in Types,
              NEW n \in Counts, EventAddRequest(k, s, ty, n)
       PROVE  TypeOK'
  <2>. DEFINE t == "EventAddRequest"
              ev == [sid |-> s, data_type |-> ty, data_count |-> n]
  <2>0. t \in CommandTypes /\ ev \in EventAdds
    BY DEF ChannelCommands, EventAdds
  <2>1. CASE Fails(t, get_exception(OurRole, t))
    BY <1>12, <2>0, <2>1, RaiseType, ExceptionType
       DEF EventAddRequest, Fails, Errors, TypeOK, circuitVars, objectVars,
           indexVars, subVars
  <2>2. CASE /\ channels_sid[s] # None
             /\ Takes(channels_sid[s], t) \/ Refuses(channels_sid[s], t)
             /\ event_add' = event_add
                \/ event_add' = [event_add EXCEPT ![k] = ev]
             /\ UNCHANGED <<channels, chan_sid, chan_version, chan_native, event_cancel>>
    <3>1. channels_sid[s] \in Cids
      BY <2>2 DEF TypeOK
    <3>2. event_add' \in [Subids -> EventAdds \cup {NoSub}]
      BY <2>0, <2>2 DEF TypeOK
    <3>. HIDE DEF ev
    <3>. QED  BY <1>12, <2>0, <2>2, <3>1, <3>2, TakesType
              DEF EventAddRequest, TypeOK, circuitVars, indexVars
  <2>. QED  BY <1>12, <2>1, <2>2 DEF EventAddRequest, Refuses, Raises, subVars
<1>13. ASSUME NEW k \in Subids, NEW s \in Sids, NEW ty \in Types,
              EventCancelRequest(k, s, ty)
       PROVE  TypeOK'
  <2>. DEFINE t == "EventCancelRequest"
  <2>0. t \in CommandTypes
    BY DEF ChannelCommands
  <2>1. CASE Fails(t, "KeyError") \/ Fails(t, get_exception(OurRole, t))
    BY <1>13, <2>0, <2>1, RaiseType, ExceptionType
       DEF EventCancelRequest, Fails, Errors, TypeOK, circuitVars, objectVars,
           indexVars, subVars
  <2>2. CASE /\ event_add[k] # NoSub
             /\ SubChannel(k) # None
             /\ Takes(SubChannel(k), t) \/ Refuses(SubChannel(k), t)
             /\ \/ UNCHANGED event_cancel
                \/ event_cancel' = [event_cancel EXCEPT ![k] = event_add[k]]
             /\ UNCHANGED <<channels, chan_sid, chan_version, chan_native, event_add>>
    <3>1. SubChannel(k) \in Cids
      BY <2>2 DEF TypeOK, SubChannel, EventAdds
    <3>2. event_cancel' \in [Subids -> EventAdds \cup {NoSub}]
      BY <2>2 DEF TypeOK
    <3>. QED  BY <1>13, <2>0, <2>2, <3>1, <3>2, TakesType
              DEF EventCancelRequest, TypeOK, circuitVars, indexVars
  <2>. QED  BY <1>13, <2>1, <2>2 DEF EventCancelRequest, Refuses, Raises, subVars
<1>14. ASSUME NEW k \in Subids, NEW s, NEW ty, EventCancelResponse(k, s, ty)
       PROVE  TypeOK'
  <2>. DEFINE t == "EventCancelResponse"
  <2>0. t \in CommandTypes
    BY DEF ChannelCommands
  <2>1. CASE /\ \/ outcome' = Ok
                \/ Raise(t, "KeyError")
                \/ Raise(t, get_exception(OurRole, t))
             /\ event_add' \in {event_add, [event_add EXCEPT ![k] = NoSub]}
             /\ UNCHANGED <<objectVars, event_cancel>>
    <3>1. OutcomeOK
      BY <2>0, <2>1, RaiseType, ExceptionType DEF Errors
    <3>. QED  BY <1>14, <2>1, <3>1
              DEF EventCancelResponse, TypeOK, circuitVars, objectVars,
                  indexVars
  <2>2. CASE /\ event_add[k] # NoSub
             /\ SubChannel(k) # None
             /\ Takes(SubChannel(k), t) \/ Refuses(SubChannel(k), t)
             /\ event_add' \in {event_add, [event_add EXCEPT ![k] = NoSub]}
             /\ event_cancel' \in {event_cancel,
                                   [event_cancel EXCEPT ![k] = NoSub]}
             /\ UNCHANGED <<channels, chan_sid, chan_version, chan_native>>
    <3>1. SubChannel(k) \in Cids
      BY <2>2 DEF TypeOK, SubChannel, EventAdds
    <3>. QED  BY <1>14, <2>0, <2>2, <3>1, TakesType
              DEF EventCancelResponse, TypeOK, circuitVars, indexVars
  <2>. QED  BY <1>14, <2>1, <2>2
            DEF EventCancelResponse, Refuses, Raises, Fails, subVars
<1>15. ASSUME NEW k \in Subids, NEW ty, NEW n, NEW empty \in BOOLEAN,
              EventAddResponse(k, ty, n, empty)
       PROVE  TypeOK'
  <2>. DEFINE t == "EventAddResponse"
  <2>0. t \in CommandTypes
    BY DEF ChannelCommands
  <2>1. CASE EventCancelResponse(k, event_cancel[k].sid, ty)
    BY <1>14, <2>1
  <2>2. CASE /\ \/ outcome' = Ok /\ UNCHANGED <<objectVars, subVars>>
                \/ Fails(t, "KeyError")
                \/ Fails(t, get_exception(OurRole, t))
             /\ UNCHANGED <<circuitVars, indexVars>>
    <3>1. OutcomeOK
      BY <2>0, <2>2, RaiseType, ExceptionType DEF Errors, Fails
    <3>. QED  BY <2>2, <3>1
              DEF Fails, TypeOK, circuitVars, objectVars, indexVars, subVars
  <2>3. CASE /\ event_add[k] # NoSub
             /\ SubChannel(k) # None
             /\ Takes(SubChannel(k), t) \/ Refuses(SubChannel(k), t)
             /\ UNCHANGED <<channels, chan_sid, chan_version, chan_native, subVars,
                            circuitVars, indexVars>>
    <3>1. SubChannel(k) \in Cids
      BY <2>3 DEF TypeOK, SubChannel, EventAdds
    <3>. QED  BY <2>0, <2>3, <3>1, TakesType
              DEF TypeOK, circuitVars, indexVars, subVars
  <2>. QED  BY <1>15, <2>1, <2>2, <2>3 DEF EventAddResponse, Refuses, Raises
<1>16. {"CreateChFailResponse", "AccessRightsResponse", "ClearChannelRequest"}
         \subseteq ChannelCommands
  BY DEF ChannelCommands
<1>. QED
  BY <1>0, <1>1, <1>2, <1>3, <1>4, <1>5, <1>6, <1>7, <1>8, <1>9, <1>10,
     <1>11, <1>12, <1>13, <1>14, <1>15, <1>16
     DEF Next, CreateChFailResponse, AccessRightsResponse, ClearChannelRequest

\* The tables of the circuit keep their types, whatever commands come.
THEOREM TypeCorrect == Spec => []TypeOK
<1>. QED  BY InitType, NextType, PTL DEF Spec

(***************************************************************************)
(* The two halves of a machine.  The lemmas of this part are the only ones *)
(* that look into the tables.                                              *)
(***************************************************************************)
CircuitPaired ==
  <<circuit_states["CLIENT"], circuit_states["SERVER"]>> \in CircuitPairs

Lost == circuit_states[OurRole] = "DISCONNECTED"

LEMMA LostBoth ==
  ASSUME TypeOK, CircuitPaired
  PROVE  \A r \in Roles : circuit_states[r] = "DISCONNECTED" <=> Lost
BY RoleAssumption DEF CircuitPaired, CircuitPairs, Lost, Roles, CLIENT, SERVER

\* While the circuit is connected, the state-triggered table does nothing.
LEMMA FireConnected ==
  ASSUME TypeOK, CircuitPaired, ~Lost,
         NEW st \in [Roles -> ChannelStates], NEW role \in Roles, NEW t
  PROVE  Fire(st, role, t) = [st EXCEPT ![role] = ChannelTarget(st[role], t)]
BY LostBoth DEF Fire, Update

LEMMA FireLost ==
  ASSUME TypeOK, CircuitPaired, Lost,
         NEW st \in [Roles -> ChannelStates], NEW role \in Roles, NEW t
  PROVE  /\ Fire(st, role, t)["CLIENT"] = "CLOSED"
         /\ Fire(st, role, t)["SERVER"] =
              STT(SERVER, [st EXCEPT ![role] =
                             ChannelTarget(st[role], t)]["SERVER"])
BY LostBoth DEF Fire, Update, STT, Roles, CLIENT, SERVER

\* On a connected circuit both halves accept the same commands, but for two
\* that move neither; and an accepted command leads from a pair to a pair.
LEMMA TablesAgree ==
  ASSUME NEW x, NEW y, <<x, y>> \in ChannelPairs, NEW t
  PROVE  /\ t \in ChannelAccepts("CLIENT")[x] /\ t \notin ChannelAccepts("SERVER")[y]
              => ChannelTarget(x, t) = x
         /\ t \notin ChannelAccepts("CLIENT")[x] /\ t \in ChannelAccepts("SERVER")[y]
              => ChannelTarget(y, t) = y
         /\ t \in ChannelAccepts("CLIENT")[x] /\ t \in ChannelAccepts("SERVER")[y]
              => <<ChannelTarget(x, t), ChannelTarget(y, t)>> \in ChannelPairs
<1>. USE DEF ChannelPairs, ChannelAccepts, ChannelTarget, ChannelMoves,
             InFlightResponses, IoRequests, IoResponses, CLIENT
<1>1. CASE x = "SEND_CREATE_CHAN_REQUEST" /\ y = "IDLE"
  BY <1>1
<1>2. CASE x = "AWAIT_CREATE_CHAN_RESPONSE" /\ y = "SEND_CREATE_CHAN_RESPONSE"
  BY <1>2
<1>3. CASE x = "CONNECTED" /\ y = "CONNECTED"
  BY <1>3
<1>4. CASE x = "MUST_CLOSE" /\ y = "MUST_CLOSE"
  BY <1>4
<1>5. CASE x = "FAILED" /\ y = "FAILED"
  BY <1>5
<1>6. CASE x = "CLOSED" /\ y = "CLOSED"
  BY <1>6
<1>. QED  BY <1>1, <1>2, <1>3, <1>4, <1>5, <1>6

LEMMA ProcessedConnected ==
  ASSUME TypeOK, CircuitPaired, ~Lost,
         NEW st \in [Roles -> ChannelStates], Paired(st), NEW t,
         NEW p, p = Processed(st, t)
  PROVE  /\ <<p.states["CLIENT"], p.states["SERVER"]>> \in ChannelPairs
         /\ p.error # "none" => p.states = st
         /\ p.error = "none" =>
              /\ t \in ChannelAccepts("CLIENT")[st["CLIENT"]]
              /\ p.states["CLIENT"] = ChannelTarget(st["CLIENT"], t)
<1>. DEFINE x == st["CLIENT"]
            y == st["SERVER"]
            ours == Fire(st, OurRole, t)
            both == Fire(ours, TheirRole, t)
<1>1. <<x, y>> \in ChannelPairs
  BY DEF Paired, Lost
<1>2. ours = [st EXCEPT ![OurRole] = ChannelTarget(st[OurRole], t)]
  BY FireConnected, RoleAssumption
<1>3. ours \in [Roles -> ChannelStates] /\ ours[TheirRole] = st[TheirRole]
  BY <1>2, FireType, RoleFacts, RoleAssumption
<1>4. both = [ours EXCEPT ![TheirRole] = ChannelTarget(ours[TheirRole], t)]
  BY <1>3, FireConnected, RoleFacts
<1>5. \A r \in Roles : both[r] = ChannelTarget(st[r], t)
  BY <1>2, <1>3, <1>4, RoleFacts
<1>6. CASE t \notin ChannelAccepts(OurRole)[st[OurRole]]
  <2>1. p = [states |-> st, error |-> get_exception(OurRole, t)]
    BY <1>6 DEF Processed
  <2>. QED  BY <1>1, <2>1, ExceptionType
<1>7. CASE /\ t \in ChannelAccepts(OurRole)[st[OurRole]]
           /\ t \notin ChannelAccepts(TheirRole)[st[TheirRole]]
  <2>1. p = [states |-> ours, error |-> get_exception(TheirRole, t)]
    BY <1>3, <1>7 DEF Processed
  <2>2. ChannelTarget(st[OurRole], t) = st[OurRole]
    <3>1. CASE OurRole = "CLIENT" /\ TheirRole = "SERVER"
      BY <1>1, <1>7, <3>1, TablesAgree
    <3>2. CASE OurRole = "SERVER" /\ TheirRole = "CLIENT"
      BY <1>1, <1>7, <3>2, TablesAgree
    <3>. QED  BY <3>1, <3>2, RoleFacts
  <2>3. ours = st
    BY <1>2, <2>2, RoleAssumption
  <2>. QED  BY <1>1, <2>1, <2>3, ExceptionType
<1>8. CASE /\ t \in ChannelAccepts(OurRole)[st[OurRole]]
           /\ t \in ChannelAccepts(TheirRole)[st[TheirRole]]
  <2>1. p = [states |-> both, error |-> "none"]
    BY <1>3, <1>8 DEF Processed
  <2>2. t \in ChannelAccepts("CLIENT")[x] /\ t \in ChannelAccepts("SERVER")[y]
    BY <1>8, RoleFacts
  <2>3. <<ChannelTarget(x, t), ChannelTarget(y, t)>> \in ChannelPairs
    BY <1>1, <2>2, TablesAgree
  <2>. QED  BY <1>5, <2>1, <2>2, <2>3, RoleFacts
<1>. QED  BY <1>6, <1>7, <1>8

\* On a connected circuit a refused command moves neither half.
LEMMA RefusalIsClean ==
  ASSUME TypeOK, CircuitPaired, ~Lost,
         NEW st \in [Roles -> ChannelStates], Paired(st), NEW t,
         Processed(st, t).error # "none"
  PROVE  Processed(st, t).states = st
BY ProcessedConnected

\* What the loss of the connection leaves of a channel.
Shut(st) == st["CLIENT"] = "CLOSED" /\ st["SERVER"] \in {"CLOSED", "IDLE"}

LEMMA ProcessedLost ==
  ASSUME TypeOK, CircuitPaired, Lost,
         NEW st \in [Roles -> ChannelStates], NEW t,
         NEW p, p = Processed(st, t)
  PROVE  /\ p.states = st \/ Shut(p.states)
         /\ (Shut(st) \/ st = InitialChannel) /\ t # "CreateChanRequest"
              => p.error # "none"
<1>. DEFINE ours == Fire(st, OurRole, t)
            both == Fire(ours, TheirRole, t)
<1>1. ours \in [Roles -> ChannelStates] /\ Shut(ours)
  BY FireType, FireLost, RoleAssumption DEF Shut, STT, SERVER
<1>2. Shut(both)
  BY <1>1, FireLost, RoleFacts DEF Shut, STT, SERVER
<1>3. p.states \in {st, ours, both}
  BY DEF Processed
<1>4. p.states = st \/ Shut(p.states)
  BY <1>1, <1>2, <1>3
<1>5. ASSUME Shut(st) \/ st = InitialChannel, t # "CreateChanRequest",
             t \in ChannelAccepts(OurRole)[st[OurRole]]
      PROVE  t \notin ChannelAccepts(TheirRole)[ours[TheirRole]]
  <2>1. CASE OurRole = "CLIENT"
    <3>1. t \in {"EventCancelResponse", "ErrorResponse"}
      BY <1>5, <2>1 DEF Shut, InitialChannel, ChannelAccepts, CLIENT
    <3>. QED  BY <1>1, <2>1, <3>1, RoleFacts DEF Shut, ChannelAccepts, CLIENT
  <2>2. CASE OurRole = "SERVER"
    BY <1>5, <2>2 DEF Shut, InitialChannel, ChannelAccepts, CLIENT
  <2>. QED  BY <2>1, <2>2, RoleFacts
<1>6. (Shut(st) \/ st = InitialChannel) /\ t # "CreateChanRequest"
        => p.error # "none"
  BY <1>5, ExceptionType DEF Processed
<1>. QED  BY <1>4, <1>6

LEMMA ProcessedPaired ==
  ASSUME TypeOK, CircuitPaired,
         NEW st \in [Roles -> ChannelStates], Paired(st), NEW t
  PROVE  Paired(Processed(st, t).states)
<1>1. CASE Lost
  BY <1>1, ProcessedLost DEF Paired, Shut, Lost, ChannelPairs
<1>2. CASE ~Lost
  BY <1>2, ProcessedConnected DEF Paired
<1>. QED  BY <1>1, <1>2

(***************************************************************************)
(* The inductive invariant.  LockStep, SidIndex and IoidLive are not       *)
(* inductive as they stand: that a sid leads back to its channel needs     *)
(* that a channel gets at most one sid, hence that one which has a sid has *)
(* left AWAIT_CREATE_CHAN_RESPONSE for good.                               *)
(***************************************************************************)
Opened == {"CONNECTED", "MUST_CLOSE", "CLOSED"}
Open   == {"CONNECTED", "MUST_CLOSE"}

SidInv ==
  /\ \A s \in Sids : channels_sid[s] # None =>
       /\ channels_sid[s] \in channels
       /\ chan_sid[channels_sid[s]] = s
  /\ \A c \in channels : chan_sid[c] # None =>
       /\ channels_sid[chan_sid[c]] = c
       /\ chan_states[c]["CLIENT"] \in Opened
  /\ \A c \in channels : chan_states[c]["CLIENT"] \in Open => chan_sid[c] # None

\* A connected circuit does not keep a channel that was closed.
ClosedMeansLost ==
  \A c \in channels : chan_states[c]["CLIENT"] = "CLOSED" => Lost

IoInv ==
  \A i \in Ioids : ioids[i] # None => /\ ioids[i] \in channels
                                      /\ chan_sid[ioids[i]] # None

ObjInv == /\ LockStep
          /\ DisconnectClosesChannels
          /\ SidInv
          /\ ClosedMeansLost
          /\ VersionsAgree

CloseCommands == {"ClearChannelResponse", "ServerDisconnResponse"}

IInv == TypeOK /\ ObjInv /\ IoInv

LEMMA ProcessedOpen ==
  ASSUME TypeOK, CircuitPaired,
         NEW st \in [Roles -> ChannelStates], Paired(st), NEW t,
         NEW p, p = Processed(st, t)
  PROVE  /\ st["CLIENT"] \in Opened => p.states["CLIENT"] \in Opened
         /\ t # "CreateChanResponse" /\ p.states["CLIENT"] \in Open
              => st["CLIENT"] \in Open
         /\ t \notin CloseCommands /\ p.states["CLIENT"] = "CLOSED" /\ ~Lost
              => st["CLIENT"] = "CLOSED"
         /\ t = "CreateChanResponse" /\ p.error = "none" /\ ~Lost
              => /\ st["CLIENT"] = "AWAIT_CREATE_CHAN_RESPONSE"
                 /\ p.states["CLIENT"] = "CONNECTED"
<1>. DEFINE x == st["CLIENT"]
<1>. USE DEF Opened, Open
<1>1. CASE Lost
  BY <1>1, ProcessedLost DEF Shut
<1>2. CASE ~Lost
  <2>1. CASE p.error # "none"
    <3>1. p.states = st
      BY <1>2, <2>1, RefusalIsClean
    <3>. QED  BY <1>2, <2>1, <3>1
  <2>2. CASE p.error = "none"
    <3>1. /\ t \in ChannelAccepts("CLIENT")[x]
          /\ p.states["CLIENT"] = ChannelTarget(x, t)
      BY <1>2, <2>2, ProcessedConnected
    <3>2. x \in ChannelStates
      BY RoleFacts
    <3>3. x \in Opened => ChannelTarget(x, t) \in Opened
      BY <3>1 DEF ChannelTarget, ChannelMoves, ChannelAccepts,
                  InFlightResponses, IoRequests, IoResponses, CLIENT
    <3>4. t # "CreateChanResponse" /\ ChannelTarget(x, t) \in Open => x \in Open
      BY <3>1, <3>2 DEF ChannelTarget, ChannelMoves, ChannelStates
    <3>5. t = "CreateChanResponse" =>
            x \in {"AWAIT_CREATE_CHAN_RESPONSE", "SEND_CREATE_CHAN_RESPONSE"}
      BY <3>1, <3>2 DEF ChannelAccepts, ChannelStates, InFlightResponses,
                        IoRequests, IoResponses, CLIENT
    <3>6. x # "SEND_CREATE_CHAN_RESPONSE"
      BY DEF Paired, ChannelPairs
    <3>7. t = "CreateChanResponse" => ChannelTarget(x, t) = "CONNECTED"
      BY <3>5 DEF ChannelTarget, ChannelMoves
    <3>8. t \notin CloseCommands /\ ChannelTarget(x, t) = "CLOSED"
            => x = "CLOSED"
      BY <3>1, <3>2 DEF ChannelTarget, ChannelMoves, ChannelStates,
                        CloseCommands
    <3>. QED  BY <3>1, <3>3, <3>4, <3>5, <3>6, <3>7, <3>8
  <2>. QED  BY <2>1, <2>2
<1>. QED  BY <1>1, <1>2

\* Nothing happens to the channels or to what they are found by.
LEMMA ObjFrame ==
  ASSUME ObjInv, UNCHANGED <<circuitVars, objectVars, channels_sid>>
  PROVE  ObjInv'
BY DEF ObjInv, LockStep, Paired, DisconnectClosesChannels, SidInv,
       ClosedMeansLost, Lost, VersionsAgree, circuitVars, objectVars

\* A channel's machine processes a command that creates or closes nothing,
\* or refuses one that would.
LEMMA ObjStep ==
  ASSUME TypeOK, ObjInv, NEW c \in channels, NEW t,
         chan_states' = [chan_states EXCEPT
                           ![c] = Processed(chan_states[c], t).states],
         \/ t \notin {"CreateChanResponse"} \cup CloseCommands
         \/ Processed(chan_states[c], t).error # "none",
         UNCHANGED <<circuitVars, channels, chan_sid, chan_version,
                     channels_sid>>
  PROVE  ObjInv'
<1>. DEFINE p == Processed(chan_states[c], t)
<1>0. c \in Cids /\ chan_states[c] \in [Roles -> ChannelStates]
  BY DEF TypeOK
<1>1. Paired(chan_states[c]) /\ CircuitPaired
  BY <1>0 DEF ObjInv, LockStep, CircuitPaired
<1>2. chan_states'[c] = p.states
      /\ \A d \in Cids : d # c => chan_states'[d] = chan_states[d]
  BY <1>0 DEF TypeOK
<1>3. Paired(p.states)
  BY <1>0, <1>1, ProcessedPaired
<1>4. LockStep'
  BY <1>2, <1>3 DEF ObjInv, LockStep, Paired, circuitVars
<1>5. DisconnectClosesChannels'
  <2>1. CASE Lost
    <3>1. Shut(p.states) \/ p.states = chan_states[c]
      BY <1>0, <1>1, <2>1, ProcessedLost
    <3>. QED  BY <1>2, <2>1, <3>1
              DEF ObjInv, DisconnectClosesChannels, Shut, TypeOK, circuitVars
  <2>2. CASE ~Lost
    BY <2>2 DEF Lost, DisconnectClosesChannels, circuitVars
  <2>. QED  BY <2>1, <2>2
<1>6. SidInv'
  <2>1. chan_states[c]["CLIENT"] \in Opened => p.states["CLIENT"] \in Opened
    BY <1>0, <1>1, ProcessedOpen
  <2>2. p.states["CLIENT"] \in Open => chan_states[c]["CLIENT"] \in Open
    <3>1. CASE t \notin {"CreateChanResponse"} \cup CloseCommands
      BY <1>0, <1>1, <3>1, ProcessedOpen
    <3>2. CASE p.error # "none"
      <4>1. CASE Lost
        BY <1>0, <1>1, <4>1, ProcessedLost DEF Shut, Open
      <4>2. CASE ~Lost
        BY <1>0, <1>1, <3>2, <4>2, RefusalIsClean
      <4>. QED  BY <4>1, <4>2
    <3>. QED  BY <3>1, <3>2
  <2>. HIDE DEF p
  <2>. QED  BY <1>2, <2>1, <2>2 DEF ObjInv, SidInv, TypeOK
<1>7. VersionsAgree'
  BY DEF ObjInv, VersionsAgree, circuitVars
<1>8. ClosedMeansLost'
  <2>1. CASE Lost
    BY <2>1 DEF ClosedMeansLost, Lost, circuitVars
  <2>2. CASE ~Lost
    <3>1. p.states["CLIENT"] = "CLOSED" => chan_states[c]["CLIENT"] = "CLOSED"
      <4>1. CASE t \notin CloseCommands
        BY <1>0, <1>1, <2>2, <4>1, ProcessedOpen
      <4>2. CASE p.error # "none"
        BY <1>0, <1>1, <2>2, <4>2, RefusalIsClean
      <4>. QED  BY <4>1, <4>2
    <3>. HIDE DEF p
    <3>. QED  BY <1>2, <2>2, <3>1 DEF ObjInv, ClosedMeansLost, TypeOK
  <2>. QED  BY <2>1, <2>2
<1>. QED  BY <1>4, <1>5, <1>6, <1>7, <1>8 DEF ObjInv

\* The case shared by most commands: one that found its channel.
LEMMA ChannelStep ==
  ASSUME TypeOK, ObjInv, NEW c \in channels, NEW t,
         \/ Raises(c, t) \/ Refuses(c, t)
         \/ Takes(c, t) /\ t \notin {"CreateChanResponse"} \cup CloseCommands
            /\ UNCHANGED <<channels, chan_sid, chan_version>>,
         UNCHANGED <<circuitVars, channels_sid>>
  PROVE  ObjInv'
<1>1. \/ t \notin {"CreateChanResponse"} \cup CloseCommands
      \/ Processed(chan_states[c], t).error # "none"
  BY DEF Refuses, Raises
<1>2. /\ chan_states' = [chan_states EXCEPT
                           ![c] = Processed(chan_states[c], t).states]
      /\ UNCHANGED <<channels, chan_sid, chan_version>>
  BY DEF Refuses, Raises, Takes
<1>. QED  BY <1>1, <1>2, ObjStep

LEMMA InitIInv == Init => IInv
<1>. SUFFICES ASSUME Init PROVE IInv
  OBVIOUS
<1>1. TypeOK
  BY InitType
<1>2. LockStep
  BY DEF Init, LockStep, Paired, CircuitPairs, ChannelPairs, InitialCircuit,
         InitialChannel
<1>3. /\ DisconnectClosesChannels /\ SidInv /\ ClosedMeansLost
      /\ VersionsAgree /\ IoInv
  BY DEF Init, DisconnectClosesChannels, SidInv, ClosedMeansLost,
         VersionsAgree, IoInv
<1>. QED  BY <1>1, <1>2, <1>3 DEF IInv, ObjInv

LEMMA CircuitRefusesStays ==
  ASSUME TypeOK, CircuitPaired, NEW t, CircuitRefuses(t)
  PROVE  circuit_states' = circuit_states
<1>. DEFINE x == circuit_states["CLIENT"]
            y == circuit_states["SERVER"]
<1>. USE DEF CircuitPairs, CircuitAccepts, CircuitTarget, CircuitMoves,
             VersionCommands, CircuitCommands
<1>0. circuit_states \in [Roles -> CircuitStates] /\ <<x, y>> \in CircuitPairs
  BY DEF TypeOK, CircuitPaired
<1>1. CASE UNCHANGED circuit_states
  BY <1>1
<1>2. CASE /\ t \in CircuitAccepts[circuit_states[OurRole]]
           /\ t \notin CircuitAccepts[circuit_states[TheirRole]]
           /\ circuit_states' = [circuit_states EXCEPT
                ![OurRole] = CircuitTarget(circuit_states[OurRole], t)]
  <2>1. CASE OurRole = "CLIENT" /\ TheirRole = "SERVER"
    <3>1. CircuitTarget(x, t) = x
      BY <1>0, <1>2, <2>1
    <3>. QED  BY <1>0, <1>2, <2>1, <3>1
  <2>2. CASE OurRole = "SERVER" /\ TheirRole = "CLIENT"
    <3>1. CircuitTarget(y, t) = y
      BY <1>0, <1>2, <2>2
    <3>. QED  BY <1>0, <1>2, <2>2, <3>1
  <2>. QED  BY <2>1, <2>2, RoleFacts
<1>. QED  BY <1>1, <1>2 DEF CircuitRefuses

\* Circuit-level commands keep the two halves of the circuit paired, refused
\* or not, and never disconnect it.
LEMMA CircuitStep ==
  ASSUME TypeOK, CircuitPaired, NEW t, CircuitTakes(t) \/ CircuitRefuses(t)
  PROVE  /\ CircuitPaired'
         /\ Lost' = Lost
         /\ CircuitTakes(t) => ~Lost
<1>. DEFINE x == circuit_states["CLIENT"]
            y == circuit_states["SERVER"]
<1>. USE DEF CircuitPairs, CircuitAccepts, CircuitTarget, CircuitMoves,
             VersionCommands, CircuitCommands
<1>0. circuit_states \in [Roles -> CircuitStates] /\ <<x, y>> \in CircuitPairs
  BY DEF TypeOK, CircuitPaired
<1>1. CASE CircuitTakes(t)
  <2>1. t \in CircuitAccepts[x] /\ t \in CircuitAccepts[y]
    BY <1>1, RoleFacts DEF CircuitTakes
  <2>2. /\ circuit_states'["CLIENT"] = CircuitTarget(x, t)
        /\ circuit_states'["SERVER"] = CircuitTarget(y, t)
    BY <1>1, RoleFacts DEF CircuitTakes
  <2>3. <<CircuitTarget(x, t), CircuitTarget(y, t)>> \in CircuitPairs
        /\ x # "DISCONNECTED" /\ CircuitTarget(x, t) # "DISCONNECTED"
        /\ y # "DISCONNECTED" /\ CircuitTarget(y, t) # "DISCONNECTED"
    BY <1>0, <2>1
  <2>. QED  BY <2>2, <2>3, RoleFacts DEF CircuitPaired, Lost
<1>2. CASE CircuitRefuses(t)
  <2>1. circuit_states' = circuit_states
    BY <1>2, CircuitRefusesStays
  <2>2. ~CircuitTakes(t)
    BY <1>2, RoleFacts DEF CircuitRefuses, CircuitTakes
  <2>. QED  BY <2>1, <2>2 DEF CircuitPaired, Lost
<1>. QED  BY <1>1, <1>2

LEMMA CircuitObj ==
  ASSUME TypeOK, ObjInv, NEW t, CircuitTakes(t) \/ CircuitRefuses(t),
         UNCHANGED <<channels, chan_states, chan_sid, channels_sid>>,
         \A c \in channels : chan_version'[c] = version'
  PROVE  ObjInv'
<1>1. CircuitPaired
  BY DEF ObjInv, LockStep, CircuitPaired
<1>2. CircuitPaired' /\ Lost' = Lost
  BY <1>1, CircuitStep
<1>3. LockStep'
  BY <1>2 DEF ObjInv, LockStep, Paired, CircuitPaired, Lost
<1>4. /\ DisconnectClosesChannels' /\ SidInv' /\ ClosedMeansLost'
      /\ VersionsAgree'
  BY <1>2 DEF ObjInv, DisconnectClosesChannels, SidInv, ClosedMeansLost,
              VersionsAgree, Lost
<1>. QED  BY <1>3, <1>4 DEF ObjInv

LEMMA NextObj == IInv /\ [Next]_vars => ObjInv' /\ IoInv'
<1>. SUFFICES ASSUME IInv, [Next]_vars PROVE ObjInv' /\ IoInv'
  OBVIOUS
<1>. USE NoneFacts DEF IInv
<1>t. TypeOK /\ ObjInv /\ IoInv
  OBVIOUS
<1>s. \A s \in Sids : channels_sid[s] # None =>
        /\ channels_sid[s] \in channels
        /\ chan_sid[channels_sid[s]] # None
  BY <1>t DEF ObjInv, SidInv
<1>f. ASSUME UNCHANGED <<channels, chan_sid, ioids>>
      PROVE  IoInv'
  BY <1>t, <1>f DEF IoInv
<1>0. CASE UNCHANGED vars
  BY <1>0, <1>t, <1>f, ObjFrame DEF vars, objectVars, indexVars
<1>1. CASE Disconnect
  <2>0. /\ CircuitPaired' /\ circuit_states'[OurRole] = "DISCONNECTED"
        /\ UNCHANGED <<version, channels, chan_sid, chan_version, channels_sid,
                       ioids>>
    BY <1>1, RoleFacts DEF Disconnect, CircuitPaired, CircuitPairs, indexVars
  <2>1. \A c \in Cids : c \in channels =>
          /\ chan_states'[c]["CLIENT"] = "CLOSED"
          /\ chan_states'[c]["SERVER"] \in {"CLOSED", "IDLE"}
    BY <1>1, RoleFacts DEF Disconnect, STT, CLIENT, SERVER
  <2>2. \A c \in Cids : c \notin channels => chan_states'[c] = chan_states[c]
    BY <1>1 DEF Disconnect
  <2>3. LockStep'
    BY <1>t, <2>0, <2>1, <2>2
       DEF ObjInv, LockStep, Paired, CircuitPaired, ChannelPairs
  <2>4. channels \subseteq Cids
    BY <1>t DEF TypeOK
  <2>5. DisconnectClosesChannels' /\ SidInv' /\ VersionsAgree'
    BY <1>t, <2>0, <2>1, <2>4
       DEF ObjInv, DisconnectClosesChannels, SidInv, VersionsAgree, Opened, Open
  <2>6. ClosedMeansLost'
    BY <2>0 DEF ClosedMeansLost, Lost
  <2>. QED  BY <1>f, <2>0, <2>3, <2>5, <2>6 DEF ObjInv
<1>2. ASSUME NEW t, \/ CircuitRefuses(t)
                    \/ CircuitTakes(t) /\ UNCHANGED objectVars
                       /\ UNCHANGED <<version, indexVars>>
      PROVE  ObjInv' /\ IoInv'
  <2>1. UNCHANGED <<version, channels, chan_states, chan_sid, chan_version,
                    channels_sid, ioids>>
    BY <1>2 DEF CircuitRefuses, objectVars, indexVars
  <2>2. \A c \in channels : chan_version'[c] = version'
    BY <1>t, <2>1 DEF ObjInv, VersionsAgree
  <2>. QED  BY <1>2, <1>t, <1>f, <2>1, <2>2, CircuitObj
<1>3. ASSUME NEW t, NEW v, CircuitTakes(t), Negotiate(v), UNCHANGED indexVars
      PROVE  ObjInv' /\ IoInv'
  <2>1. UNCHANGED <<channels, chan_states, chan_sid, channels_sid, ioids>>
    BY <1>3 DEF Negotiate, indexVars
  <2>2. \A c \in channels : chan_version'[c] = version'
    BY <1>3, <1>t DEF Negotiate, TypeOK
  <2>. QED  BY <1>3, <1>t, <1>f, <2>1, <2>2, CircuitObj
<1>4. ASSUME NEW c \in Cids, NewChannel(c)
      PROVE  ObjInv' /\ IoInv'
  <2>1. /\ c \notin channels
        /\ channels' = channels \cup {c}
        /\ chan_states'[c] = InitialChannel
        /\ chan_sid'[c] = None
        /\ chan_version'[c] = version
        /\ \A d \in Cids : d # c => /\ chan_states'[d] = chan_states[d]
                                    /\ chan_sid'[d] = chan_sid[d]
                                    /\ chan_version'[d] = chan_version[d]
        /\ UNCHANGED <<circuit_states, version, channels_sid, ioids>>
    BY <1>4, <1>t DEF NewChannel, TypeOK, circuitVars, indexVars
  <2>2. LockStep'
    BY <1>t, <2>1 DEF ObjInv, LockStep, Paired, ChannelPairs, InitialChannel
  <2>3. /\ DisconnectClosesChannels' /\ SidInv' /\ ClosedMeansLost'
        /\ VersionsAgree'
    BY <1>t, <2>1 DEF ObjInv, DisconnectClosesChannels, SidInv,
                      ClosedMeansLost, Lost, VersionsAgree, TypeOK,
                      InitialChannel, Opened, Open
  <2>4. IoInv'
    BY <1>t, <2>1 DEF IoInv, TypeOK
  <2>. QED  BY <2>2, <2>3, <2>4 DEF ObjInv
<1>5. ASSUME NEW c \in Cids, CreateChanRequest(c)
      PROVE  ObjInv' /\ IoInv'
  <2>. DEFINE t == "CreateChanRequest"
              p == Processed(InitialChannel, t)
  <2>1. CASE c \in channels
    <3>1. /\ chan_states' = [chan_states EXCEPT
                               ![c] = Processed(chan_states[c], t).states]
          /\ UNCHANGED <<circuitVars, channels, chan_sid, chan_version,
                         channels_sid, ioids>>
      BY <1>5, <1>t, <2>1 DEF CreateChanRequest, TypeOK, indexVars
    <3>. QED  BY <1>t, <1>f, <2>1, <3>1, ObjStep DEF CloseCommands
  <2>2. CASE c \notin channels
    <3>0. InitialChannel \in [Roles -> ChannelStates] /\ Paired(InitialChannel)
      BY RoleFacts DEF InitialChannel, ChannelStates, Paired, ChannelPairs
    <3>1. CircuitPaired
      BY <1>t DEF ObjInv, LockStep, CircuitPaired
    <3>2. Paired(p.states)
      BY <1>t, <3>0, <3>1, ProcessedPaired
    <3>3. p.states["CLIENT"] \notin Open
      BY <1>t, <3>0, <3>1, ProcessedOpen DEF InitialChannel, Open
    <3>4. Lost => Shut(p.states) \/ p.states = InitialChannel
      BY <1>t, <3>0, <3>1, ProcessedLost
    <3>10. p.states["CLIENT"] = "CLOSED" => Lost
      BY <1>t, <3>0, <3>1, ProcessedOpen DEF InitialChannel, CloseCommands
    <3>5. /\ channels' = channels \cup {c}
          /\ chan_states'[c] = p.states
          /\ chan_sid'[c] = None
          /\ chan_version'[c] = version
          /\ \A d \in Cids : d # c => /\ chan_states'[d] = chan_states[d]
                                      /\ chan_sid'[d] = chan_sid[d]
                                      /\ chan_version'[d] = chan_version[d]
          /\ UNCHANGED <<circuit_states, version, channels_sid, ioids>>
      BY <1>5, <1>t, <2>2 DEF CreateChanRequest, TypeOK, circuitVars, indexVars
    <3>. HIDE DEF p
    <3>6. LockStep'
      BY <1>t, <3>2, <3>5 DEF ObjInv, LockStep, Paired
    <3>7. DisconnectClosesChannels'
      BY <1>t, <3>4, <3>5
         DEF ObjInv, DisconnectClosesChannels, TypeOK, Lost, Shut
    <3>8. SidInv' /\ VersionsAgree' /\ ClosedMeansLost'
      BY <1>t, <2>2, <3>3, <3>10, <3>5
         DEF ObjInv, SidInv, VersionsAgree, ClosedMeansLost, Lost, TypeOK
    <3>9. IoInv'
      BY <1>t, <2>2, <3>5 DEF IoInv, TypeOK
    <3>. QED  BY <3>6, <3>7, <3>8, <3>9 DEF ObjInv
  <2>. QED  BY <2>1, <2>2
<1>6. ASSUME NEW c \in Cids, NEW s \in Sids, NEW n,
             CreateChanResponse(c, s, n)
      PROVE  ObjInv' /\ IoInv'
  <2>. DEFINE t == "CreateChanResponse"
              p == Processed(chan_states[c], t)
  <2>0. UNCHANGED <<circuitVars, ioids>>
    BY <1>6 DEF CreateChanResponse
  <2>1. CASE Fails(t, "KeyError") /\ UNCHANGED channels_sid
    BY <1>t, <1>f, <2>0, <2>1, ObjFrame DEF Fails, objectVars
  <2>2. CASE c \in channels /\ Raises(c, t) /\ UNCHANGED channels_sid
    BY <1>t, <1>f, <2>0, <2>2, ChannelStep DEF Raises
  <2>3. CASE /\ c \in channels
             /\ channels_sid[s] = None
             /\ Takes(c, t)
             /\ chan_sid' = [chan_sid EXCEPT ![c] = s]
             /\ chan_version' = [chan_version EXCEPT ![c] = version]
             /\ channels_sid' = [channels_sid EXCEPT ![s] = c]
             /\ UNCHANGED channels
    <3>0. /\ chan_states[c] \in [Roles -> ChannelStates]
          /\ Paired(chan_states[c]) /\ CircuitPaired
      BY <1>t DEF TypeOK, ObjInv, LockStep, CircuitPaired
    <3>1. p.error = "none"
      BY <2>3 DEF Takes
    <3>2. ~Lost
      <4>1. SUFFICES ASSUME Lost PROVE FALSE
        OBVIOUS
      <4>2. Shut(chan_states[c]) \/ chan_states[c] = InitialChannel
        BY <1>t, <2>3, <4>1 DEF ObjInv, DisconnectClosesChannels, Lost, Shut
      <4>. QED  BY <1>t, <3>0, <3>1, <4>1, <4>2, ProcessedLost
    <3>3. /\ chan_states[c]["CLIENT"] = "AWAIT_CREATE_CHAN_RESPONSE"
          /\ p.states["CLIENT"] = "CONNECTED"
      BY <1>t, <3>0, <3>1, <3>2, ProcessedOpen
    <3>4. chan_sid[c] = None
      BY <1>t, <2>3, <3>3 DEF ObjInv, SidInv, Opened
    <3>5. Paired(p.states)
      BY <1>t, <3>0, ProcessedPaired
    <3>6. /\ chan_states'[c] = p.states
          /\ chan_sid'[c] = s
          /\ chan_version'[c] = version
          /\ channels_sid'[s] = c
          /\ \A d \in Cids : d # c => /\ chan_states'[d] = chan_states[d]
                                      /\ chan_sid'[d] = chan_sid[d]
                                      /\ chan_version'[d] = chan_version[d]
          /\ \A r \in Sids : r # s => channels_sid'[r] = channels_sid[r]
          /\ UNCHANGED <<circuit_states, version, channels, ioids>>
      BY <1>6, <1>t, <2>0, <2>3 DEF Takes, TypeOK, circuitVars
    <3>7. channels_sid[s] = None
      BY <2>3
    <3>. HIDE DEF p
    <3>8. LockStep'
      BY <1>t, <3>5, <3>6 DEF ObjInv, LockStep, Paired
    <3>9. DisconnectClosesChannels'
      BY <3>2, <3>6 DEF DisconnectClosesChannels, Lost
    <3>10. SidInv'
      <4>1. \A r \in Sids : channels_sid'[r] # None =>
              /\ channels_sid'[r] \in channels
              /\ chan_sid'[channels_sid'[r]] = r
        BY <1>t, <2>3, <3>4, <3>6 DEF ObjInv, SidInv, TypeOK
      <4>2. \A d \in channels : chan_sid'[d] # None =>
              /\ channels_sid'[chan_sid'[d]] = d
              /\ chan_states'[d]["CLIENT"] \in Opened
        BY <1>t, <2>3, <3>3, <3>6, <3>7 DEF ObjInv, SidInv, TypeOK, Opened
      <4>3. \A d \in channels :
              chan_states'[d]["CLIENT"] \in Open => chan_sid'[d] # None
        BY <1>t, <2>3, <3>6 DEF ObjInv, SidInv, TypeOK
      <4>. QED  BY <3>6, <4>1, <4>2, <4>3 DEF SidInv
    <3>11. VersionsAgree'
      BY <1>t, <3>6 DEF ObjInv, VersionsAgree, TypeOK
    <3>12. IoInv'
      BY <1>t, <3>6 DEF IoInv, TypeOK
    <3>13. ClosedMeansLost'
      BY <1>t, <3>3, <3>6 DEF ObjInv, ClosedMeansLost, Lost, TypeOK
    <3>. QED  BY <3>8, <3>9, <3>10, <3>11, <3>12, <3>13 DEF ObjInv
  <2>. QED  BY <1>6, <2>1, <2>2, <2>3 DEF CreateChanResponse
<1>7. ASSUME NEW c \in Cids, NEW t, ByCid(t, c),
             t \notin {"CreateChanResponse"} \cup CloseCommands
      PROVE  ObjInv' /\ IoInv'
  <2>1. UNCHANGED <<circuitVars, channels_sid, ioids>>
    BY <1>7 DEF ByCid, indexVars
  <2>2. CASE Fails(t, "KeyError")
    BY <1>t, <1>f, <2>1, <2>2, ObjFrame DEF Fails, objectVars
  <2>3. CASE c \in channels /\ (\/ Refuses(c, t)
                                \/ Takes(c, t) /\ UNCHANGED <<channels, chan_sid,
                                                              chan_version>>)
    BY <1>7, <1>t, <1>f, <2>1, <2>3, ChannelStep DEF Refuses, Raises
  <2>. QED  BY <1>7, <2>2, <2>3 DEF ByCid
<1>8. ASSUME NEW c \in Cids,
             NEW t \in {"ClearChannelResponse", "ServerDisconnResponse"},
             CloseResponse(t, c)
      PROVE  ObjInv' /\ IoInv'
  <2>. DEFINE p == Processed(chan_states[c], t)
  <2>0. UNCHANGED circuitVars
    BY <1>8 DEF CloseResponse
  <2>1. CASE Fails(t, "KeyError") /\ UNCHANGED indexVars
    BY <1>t, <1>f, <2>0, <2>1, ObjFrame DEF Fails, objectVars, indexVars
  <2>2. CASE c \in channels /\ Refuses(c, t) /\ UNCHANGED indexVars
    BY <1>t, <1>f, <2>0, <2>2, ChannelStep DEF Refuses, Raises, indexVars
  <2>3. CASE /\ c \in channels
             /\ chan_sid[c] # None
             /\ Takes(c, t)
             /\ Forget(c)
             /\ UNCHANGED <<chan_sid, chan_version>>
    <3>0. /\ chan_states[c] \in [Roles -> ChannelStates]
          /\ Paired(chan_states[c]) /\ CircuitPaired
      BY <1>t DEF TypeOK, ObjInv, LockStep, CircuitPaired
    <3>1. Paired(p.states)
      BY <1>t, <3>0, ProcessedPaired
    <3>2. /\ channels' = channels \ {c}
          /\ chan_states'[c] = p.states
          /\ \A d \in Cids : d # c => chan_states'[d] = chan_states[d]
          /\ UNCHANGED <<circuit_states, version, chan_sid, chan_version>>
      BY <1>t, <2>0, <2>3 DEF Takes, Forget, TypeOK, circuitVars
    <3>3. /\ channels_sid'[chan_sid[c]] = None
          /\ \A s \in Sids : s # chan_sid[c] => channels_sid'[s] = channels_sid[s]
          /\ \A i \in Ioids : ioids'[i] # None => /\ ioids'[i] = ioids[i]
                                                  /\ ioids[i] # c
      BY <1>t, <2>3 DEF Forget, TypeOK
    <3>. HIDE DEF p
    <3>4. LockStep'
      BY <1>t, <3>1, <3>2 DEF ObjInv, LockStep, Paired
    <3>5. DisconnectClosesChannels'
      BY <1>t, <3>2 DEF ObjInv, DisconnectClosesChannels, TypeOK
    <3>6. SidInv'
      <4>1. \A s \in Sids : channels_sid'[s] # None =>
              /\ channels_sid'[s] \in channels \ {c}
              /\ chan_sid[channels_sid'[s]] = s
        BY <1>t, <2>3, <3>3 DEF ObjInv, SidInv, TypeOK
      <4>2. \A d \in channels \ {c} : chan_sid[d] # None =>
              /\ channels_sid'[chan_sid[d]] = d
              /\ chan_states'[d]["CLIENT"] \in Opened
        BY <1>t, <2>3, <3>2, <3>3 DEF ObjInv, SidInv, TypeOK
      <4>3. \A d \in channels \ {c} :
              chan_states'[d]["CLIENT"] \in Open => chan_sid[d] # None
        BY <1>t, <3>2 DEF ObjInv, SidInv, TypeOK
      <4>. QED  BY <3>2, <4>1, <4>2, <4>3 DEF SidInv
    <3>7. VersionsAgree'
      BY <1>t, <3>2 DEF ObjInv, VersionsAgree
    <3>8. IoInv'
      BY <1>t, <3>2, <3>3 DEF IoInv
    <3>9. ClosedMeansLost'
      BY <1>t, <3>2 DEF ObjInv, ClosedMeansLost, Lost, TypeOK
    <3>. QED  BY <3>4, <3>5, <3>6, <3>7, <3>8, <3>9 DEF ObjInv
  <2>. QED  BY <1>8, <2>1, <2>2, <2>3 DEF CloseResponse
<1>9. ASSUME NEW t \in IoRequests \cup {"WriteRequest"}, NEW s \in Sids,
             NEW i \in Ioids, IoRequest(t, s, i)
      PROVE  ObjInv' /\ IoInv'
  <2>0. /\ UNCHANGED <<circuitVars, channels_sid>>
        /\ t \notin {"CreateChanResponse"} \cup CloseCommands
    BY <1>9 DEF IoRequest, IoRequests, CloseCommands
  <2>1. CASE Fails(t, get_exception(OurRole, t)) /\ UNCHANGED ioids
    BY <1>t, <1>f, <2>0, <2>1, ObjFrame DEF Fails, objectVars
  <2>2. CASE /\ channels_sid[s] # None
             /\ Refuses(channels_sid[s], t)
             /\ UNCHANGED ioids
    BY <1>t, <1>s, <1>f, <2>0, <2>2, ChannelStep DEF Refuses, Raises
  <2>3. CASE /\ channels_sid[s] # None
             /\ Takes(channels_sid[s], t)
             /\ ioids' \in {ioids, [ioids EXCEPT ![i] = channels_sid[s]]}
             /\ UNCHANGED <<channels, chan_sid, chan_version>>
    <3>1. ObjInv'
      BY <1>t, <1>s, <2>0, <2>3, ChannelStep
    <3>2. IoInv'
      BY <1>t, <1>s, <2>3 DEF IoInv, TypeOK
    <3>. QED  BY <3>1, <3>2
  <2>. QED  BY <1>9, <2>1, <2>2, <2>3 DEF IoRequest
<1>10. ASSUME NEW t \in IoResponses, NEW i \in Ioids, IoResponse(t, i)
       PROVE  ObjInv' /\ IoInv'
  <2>0. /\ UNCHANGED <<circuitVars, channels_sid>>
        /\ t \notin {"CreateChanResponse"} \cup CloseCommands
        /\ \A j \in Ioids : ioids'[j] # None => ioids'[j] = ioids[j]
    BY <1>10, <1>t DEF IoResponse, IoResponses, CloseCommands, TypeOK
  <2>1. CASE Fails(t, get_exception(OurRole, t))
    BY <1>t, <2>0, <2>1, ObjFrame DEF Fails, objectVars, IoInv
  <2>2. CASE /\ ioids[i] # None
             /\ \/ Refuses(ioids[i], t)
                \/ Takes(ioids[i], t)
                   /\ UNCHANGED <<channels, chan_sid, chan_version>>
    <3>1. ioids[i] \in channels
      BY <1>t, <2>2 DEF IoInv
    <3>2. ObjInv'
      BY <1>t, <2>0, <2>2, <3>1, ChannelStep
    <3>3. IoInv'
      BY <1>t, <2>0, <2>2 DEF IoInv, Refuses, Raises
    <3>. QED  BY <3>2, <3>3
  <2>. QED  BY <1>10, <2>1, <2>2 DEF IoResponse
<1>11. ASSUME NEW k \in Subids, NEW s \in Sids, NEW ty, NEW n,
              EventAddRequest(k, s, ty, n)
       PROVE  ObjInv' /\ IoInv'
  <2>. DEFINE t == "EventAddRequest"
  <2>0. UNCHANGED <<circuitVars, channels_sid, ioids>>
    BY <1>11 DEF EventAddRequest, indexVars
  <2>1. CASE Fails(t, get_exception(OurRole, t))
    BY <1>t, <1>f, <2>0, <2>1, ObjFrame DEF Fails, objectVars
  <2>2. CASE /\ channels_sid[s] # None
             /\ \/ Refuses(channels_sid[s], t)
                \/ Takes(channels_sid[s], t)
                   /\ UNCHANGED <<channels, chan_sid, chan_version>>
    BY <1>t, <1>s, <1>f, <2>0, <2>2, ChannelStep DEF Refuses, Raises, CloseCommands
  <2>. QED  BY <1>11, <2>1, <2>2 DEF EventAddRequest
<1>12. ASSUME NEW k \in Subids, event_add[k] # NoSub, SubChannel(k) # None,
              NEW t, t \notin {"CreateChanResponse"} \cup CloseCommands,
              \/ Refuses(SubChannel(k), t)
              \/ Takes(SubChannel(k), t)
                 /\ UNCHANGED <<channels, chan_sid, chan_version>>,
              UNCHANGED <<circuitVars, indexVars>>
       PROVE  ObjInv' /\ IoInv'
  <2>1. SubChannel(k) \in channels
    BY <1>12, <1>t, <1>s DEF SubChannel, TypeOK, EventAdds
  <2>. QED  BY <1>12, <1>t, <1>f, <2>1, ChannelStep DEF Refuses, Raises, indexVars
<1>13. ASSUME UNCHANGED <<circuitVars, objectVars, indexVars>>
       PROVE  ObjInv' /\ IoInv'
  BY <1>13, <1>t, <1>f, ObjFrame DEF objectVars, indexVars
<1>14. ASSUME NEW k \in Subids, NEW s, NEW ty, EventCancelRequest(k, s, ty)
       PROVE  ObjInv' /\ IoInv'
  BY <1>14, <1>12, <1>13 DEF EventCancelRequest, Fails, CloseCommands
<1>15. ASSUME NEW k \in Subids, NEW s, NEW ty, EventCancelResponse(k, s, ty)
       PROVE  ObjInv' /\ IoInv'
  BY <1>15, <1>12, <1>13 DEF EventCancelResponse, Fails, CloseCommands
<1>16. ASSUME NEW k \in Subids, NEW ty, NEW n, NEW empty \in BOOLEAN,
              EventAddResponse(k, ty, n, empty)
       PROVE  ObjInv' /\ IoInv'
  BY <1>16, <1>12, <1>13, <1>15 DEF EventAddResponse, Fails, CloseCommands
<1>17. ASSUME NEW t \in CircuitCommands, CircuitCommand(t)
       PROVE  ObjInv' /\ IoInv'
  BY <1>17, <1>2 DEF CircuitCommand
<1>18. ASSUME NEW p, NEW v, VersionRequest(p, v)
       PROVE  ObjInv' /\ IoInv'
  BY <1>18, <1>2, <1>3 DEF VersionRequest
<1>19. ASSUME NEW v, VersionResponse(v)
       PROVE  ObjInv' /\ IoInv'
  BY <1>19, <1>2, <1>3 DEF VersionResponse
<1>. QED
  BY <1>0, <1>1, <1>4, <1>5, <1>6, <1>7, <1>8, <1>9, <1>10, <1>11, <1>14,
     <1>15, <1>16, <1>17, <1>18, <1>19
     DEF Next, CreateChFailResponse, AccessRightsResponse,
         ClearChannelRequest, CloseCommands

LEMMA InvHolds == Spec => []IInv
<1>1. IInv /\ [Next]_vars => IInv'
  BY NextType, NextObj DEF IInv
<1>. QED  BY <1>1, InitIInv, PTL DEF Spec

\* The client's and the server's half of every machine stay paired.
THEOREM MachinesInLockStep == Spec => []LockStep
<1>1. IInv => LockStep
  BY DEF IInv, ObjInv
<1>. QED  BY <1>1, InvHolds, PTL

\* A lost connection leaves no channel of the circuit half-open.
THEOREM DisconnectReachesChannels == Spec => []DisconnectClosesChannels
<1>1. IInv => DisconnectClosesChannels
  BY DEF IInv, ObjInv
<1>. QED  BY <1>1, InvHolds, PTL

\* channels_sid and the channels' own sids are inverse to each other.
THEOREM SidsIndexed == Spec => []SidIndex
<1>1. IInv => SidIndex
  BY DEF IInv, ObjInv, SidInv, SidIndex, Open
<1>. QED  BY <1>1, InvHolds, PTL

\* Every read or write in flight belongs to a channel the circuit has.
THEOREM IoidsLive == Spec => []IoidLive
<1>1. IInv => IoidLive
  BY DEF IInv, ObjInv, SidInv, IoInv, IoidLive
<1>. QED  BY <1>1, InvHolds, PTL

\* All channels speak the version the circuit has negotiated.
THEOREM OneVersion == Spec => []VersionsAgree
<1>1. IInv => VersionsAgree
  BY DEF IInv, ObjInv
<1>. QED  BY <1>1, InvHolds, PTL

\* A cancellation that awaits its answer has its subscription.
THEOREM CancelsPending == Spec => []CancelIsPending
<1>1. Init => CancelIsPending
  BY DEF Init, CancelIsPending
<1>2. TypeOK /\ CancelIsPending /\ [Next]_vars => CancelIsPending'
  <2>. SUFFICES ASSUME TypeOK, CancelIsPending, [Next]_vars
                PROVE  CancelIsPending'
    OBVIOUS
  <2>1. CASE UNCHANGED subVars
    BY <2>1 DEF CancelIsPending, subVars
  <2>2. ASSUME NEW k \in Subids, NEW s \in Sids, NEW ty \in Types,
               NEW n \in Counts, EventAddRequest(k, s, ty, n)
        PROVE  CancelIsPending'
    <3>1. [sid |-> s, data_type |-> ty, data_count |-> n] # NoSub
      BY NoneFacts DEF EventAdds
    <3>2. CASE /\ event_add' = [event_add EXCEPT
                    ![k] = [sid |-> s, data_type |-> ty, data_count |-> n]]
               /\ UNCHANGED event_cancel
      BY <3>1, <3>2 DEF CancelIsPending, TypeOK
    <3>. QED  BY <2>1, <2>2, <3>2 DEF EventAddRequest, Fails
  <2>3. ASSUME NEW k \in Subids, NEW s, NEW ty, EventCancelRequest(k, s, ty)
        PROVE  CancelIsPending'
    <3>1. CASE /\ event_add[k] # NoSub
               /\ event_cancel' = [event_cancel EXCEPT ![k] = event_add[k]]
               /\ UNCHANGED event_add
      BY <3>1 DEF CancelIsPending, TypeOK
    <3>. QED  BY <2>1, <2>3, <3>1 DEF EventCancelRequest, Fails
  <2>4. ASSUME NEW k \in Subids, NEW s, NEW ty, EventCancelResponse(k, s, ty)
        PROVE  CancelIsPending'
    <3>1. CASE /\ event_add' = [event_add EXCEPT ![k] = NoSub]
               /\ \/ event_cancel' = [event_cancel EXCEPT ![k] = NoSub]
                  \/ event_cancel[k] = NoSub /\ UNCHANGED event_cancel
      BY <3>1 DEF CancelIsPending, TypeOK
    <3>. QED  BY <2>1, <2>4, <3>1 DEF EventCancelResponse, Fails
  <2>5. ASSUME NEW k \in Subids, NEW ty, NEW n, NEW empty \in BOOLEAN,
               EventAddResponse(k, ty, n, empty)
        PROVE  CancelIsPending'
    BY <2>1, <2>4, <2>5 DEF EventAddResponse, Fails
  <2>6. ASSUME NEW c \in Cids, NewChannel(c) \/ CreateChanRequest(c)
                               \/ (\E s \in Sids, n \in Natives :
                                     CreateChanResponse(c, s, n))
                               \/ CreateChFailResponse(c)
                               \/ AccessRightsResponse(c)
                               \/ ClearChannelRequest(c)
                               \/ \E t \in CloseCommands : CloseResponse(t, c)
        PROVE  UNCHANGED subVars
    BY <2>6 DEF NewChannel, CreateChanRequest, CreateChanResponse, ByCid,
                CreateChFailResponse, AccessRightsResponse,
                ClearChannelRequest, CloseResponse
  <2>7. ASSUME NEW t, NEW i, NEW s, IoRequest(t, s, i) \/ IoResponse(t, i)
        PROVE  UNCHANGED subVars
    BY <2>7 DEF IoRequest, IoResponse
  <2>8. ASSUME NEW t, NEW p, NEW v, CircuitCommand(t) \/ VersionRequest(p, v)
                                    \/ VersionResponse(v) \/ Disconnect
                                    \/ UNCHANGED vars
        PROVE  UNCHANGED subVars
    BY <2>8 DEF CircuitCommand, VersionRequest, VersionResponse, Disconnect,
                CircuitRefuses, vars
  <2>. QED  BY <2>1, <2>2, <2>3, <2>4, <2>5, <2>6, <2>7, <2>8
            DEF Next, CloseCommands
<1>. QED  BY <1>1, <1>2, TypeCorrect, PTL DEF Spec

(***************************************************************************)
(* Refused commands.                                                       *)
(***************************************************************************)
\* The answer to a read or write in flight is never refused while connected.
LEMMA IoResponseAccepted ==
  ASSUME TypeOK, CircuitPaired, ~Lost,
         NEW st \in [Roles -> ChannelStates], Paired(st), st["CLIENT"] \in Open,
         NEW t \in IoResponses
  PROVE  Processed(st, t).error = "none"
<1>1. st["SERVER"] = st["CLIENT"]
  BY DEF Paired, ChannelPairs, Open
<1>2. \A r \in Roles : t \in ChannelAccepts(r)[st[r]]
  BY <1>1, RoleFacts DEF Open, ChannelAccepts, InFlightResponses
<1>3. Fire(st, OurRole, t)[TheirRole] = st[TheirRole]
  BY FireConnected, RoleFacts, RoleAssumption
<1>. QED  BY <1>2, <1>3, RoleFacts, RoleAssumption DEF Processed

\* A connected circuit accepts the first command of a new channel.
LEMMA InitialAccepted ==
  ASSUME TypeOK, CircuitPaired, ~Lost
  PROVE  Processed(InitialChannel, "CreateChanRequest").error = "none"
<1>. DEFINE t == "CreateChanRequest"
<1>1. InitialChannel \in [Roles -> ChannelStates]
  BY RoleFacts DEF InitialChannel, ChannelStates
<1>2. \A r \in Roles : t \in ChannelAccepts(r)[InitialChannel[r]]
  BY RoleFacts DEF InitialChannel, ChannelAccepts
<1>3. Fire(InitialChannel, OurRole, t)[TheirRole] = InitialChannel[TheirRole]
  BY <1>1, FireConnected, RoleFacts, RoleAssumption
<1>. QED  BY <1>2, <1>3, RoleFacts, RoleAssumption DEF Processed

LEMMA RaisesClean ==
  ASSUME IInv, ~Lost, NEW c \in Cids, NEW t, Raises(c, t)
  PROVE  UNCHANGED <<channels, chan_states, chan_sid, chan_version>>
<1>1. /\ chan_states[c] \in [Roles -> ChannelStates]
      /\ Paired(chan_states[c]) /\ CircuitPaired /\ TypeOK
  BY DEF IInv, TypeOK, ObjInv, LockStep, CircuitPaired
<1>2. Processed(chan_states[c], t).states = chan_states[c]
  BY <1>1, RefusalIsClean DEF Raises
<1>3. chan_states' = chan_states
  BY <1>1, <1>2 DEF Raises, TypeOK
<1>. QED  BY <1>3 DEF Raises

LEMMA RefusesClean ==
  ASSUME IInv, ~Lost, NEW c \in Cids, NEW t, Refuses(c, t)
  PROVE  UNCHANGED objectVars
BY RaisesClean DEF Refuses, objectVars

\* While the circuit is connected, a refused command leaves every table as it
\* was; only the native type and count of a channel follow a refused
\* CreateChanResponse (_BaseChannel.process_command notes them first).
THEOREM RejectionsAtomic == Spec => RejectionIsAtomic
<1>1. IInv /\ [Next]_vars => RejectionLeavesTables
  <2>. SUFFICES ASSUME IInv, [Next]_vars, ~Lost,
                       outcome'.error \in {"LocalProtocolError",
                                           "RemoteProtocolError"}
                PROVE  /\ UNCHANGED <<priority, version, channels, chan_states,
                                      chan_sid, chan_version, indexVars, subVars>>
                       /\ outcome'.command = "VersionRequest"
                          \/ UNCHANGED circuit_states
                       /\ outcome'.command = "CreateChanResponse"
                          \/ UNCHANGED chan_native
    BY DEF RejectionLeavesTables, Lost
  <2>. DEFINE Same == /\ UNCHANGED <<priority, version, objectVars, indexVars,
                                     subVars>>
                      /\ UNCHANGED circuit_states
  <2>0. TypeOK /\ CircuitPaired
    BY DEF IInv, ObjInv, LockStep, CircuitPaired
  <2>1. outcome' # Ok
    BY DEF Ok
  <2>2. \A c, t : ~Takes(c, t)
    BY <2>1 DEF Takes
  <2>3. \A t : ~Fails(t, "KeyError") /\ ~Raise(t, "KeyError")
    BY DEF Fails, Raise
  <2>4. CASE UNCHANGED vars
    BY <2>4 DEF vars, circuitVars, objectVars
  <2>5. ASSUME NEW t, CircuitRefuses(t)
        PROVE  Same
    <3>1. circuit_states' = circuit_states
      BY <2>0, <2>5, CircuitRefusesStays
    <3>. QED  BY <2>5, <3>1 DEF CircuitRefuses
  <2>6. ASSUME NEW c \in Cids, CreateChanRequest(c)
        PROVE  Same
    <3>. DEFINE t == "CreateChanRequest"
    <3>1. c \in channels
      <4>. SUFFICES ASSUME c \notin channels PROVE FALSE
        OBVIOUS
      <4>1. Processed(InitialChannel, t).error = "none"
        BY <2>0, InitialAccepted
      <4>. QED  BY <2>1, <2>6, <4>1 DEF CreateChanRequest
    <3>2. Refuses(c, t)
      BY <2>1, <2>6, <3>1, <2>0 DEF CreateChanRequest, Refuses, Raises, TypeOK
    <3>. QED  BY <2>6, <3>2, RefusesClean DEF CreateChanRequest, circuitVars
  <2>7. ASSUME NEW c \in Cids, NEW s, NEW n, CreateChanResponse(c, s, n)
        PROVE  /\ UNCHANGED <<priority, version, channels, chan_states, chan_sid,
                              chan_version, indexVars, subVars, circuit_states>>
               /\ outcome'.command = "CreateChanResponse"
    <3>1. /\ Raises(c, "CreateChanResponse")
          /\ UNCHANGED <<circuitVars, indexVars, subVars>>
      BY <2>2, <2>3, <2>7 DEF CreateChanResponse, indexVars
    <3>2. outcome'.command = "CreateChanResponse"
      BY <3>1 DEF Raises, Raise
    <3>. QED  BY <3>1, <3>2, RaisesClean DEF circuitVars
  <2>8. ASSUME NEW c \in Cids, NEW t, ByCid(t, c)
        PROVE  Same
    BY <2>2, <2>3, <2>8, RefusesClean DEF ByCid, circuitVars
  <2>9. ASSUME NEW c \in Cids, NEW t, CloseResponse(t, c)
        PROVE  Same
    BY <2>2, <2>3, <2>9, RefusesClean DEF CloseResponse, circuitVars
  <2>10. ASSUME NEW t, NEW s \in Sids, NEW i, IoRequest(t, s, i)
         PROVE  Same
    <3>1. channels_sid[s] # None => channels_sid[s] \in Cids
      BY <2>0 DEF TypeOK
    <3>. QED  BY <2>2, <2>10, <3>1, RefusesClean
              DEF IoRequest, Fails, circuitVars, indexVars
  <2>11. ASSUME NEW t \in IoResponses, NEW i \in Ioids, IoResponse(t, i)
         PROVE  Same
    <3>1. CASE ioids[i] = None
      <4>1. Fails(t, get_exception(OurRole, t))
        BY <2>11, <3>1 DEF IoResponse
      <4>2. ioids' = ioids
        BY <2>0, <2>11, <3>1 DEF IoResponse, TypeOK
      <4>. QED  BY <2>11, <4>1, <4>2
                DEF IoResponse, Fails, circuitVars, indexVars
    <3>2. CASE ioids[i] # None
      <4>. DEFINE c == ioids[i]
      <4>1. c \in channels /\ c \in Cids /\ chan_sid[c] # None
        BY <2>0, <3>2 DEF IInv, IoInv, TypeOK
      <4>2. chan_states[c]["CLIENT"] \in Open
        BY <4>1 DEF IInv, ObjInv, SidInv, ClosedMeansLost, Opened, Open
      <4>3. chan_states[c] \in [Roles -> ChannelStates] /\ Paired(chan_states[c])
        BY <2>0, <4>1 DEF IInv, ObjInv, LockStep, TypeOK
      <4>4. Processed(chan_states[c], t).error = "none"
        BY <2>0, <4>2, <4>3, IoResponseAccepted
      <4>. QED  BY <2>2, <2>11, <3>2, <4>4 DEF IoResponse, Refuses, Raises
    <3>. QED  BY <3>1, <3>2
  <2>12. ASSUME NEW k, NEW s \in Sids, NEW ty, NEW n,
                EventAddRequest(k, s, ty, n)
         PROVE  Same
    <3>1. channels_sid[s] # None => channels_sid[s] \in Cids
      BY <2>0 DEF TypeOK
    <3>. QED  BY <2>2, <2>12, <3>1, RefusesClean
              DEF EventAddRequest, Fails, circuitVars
  <2>13. ASSUME NEW k \in Subids
         PROVE  event_add[k] # NoSub /\ SubChannel(k) # None
                  => SubChannel(k) \in Cids
    BY <2>0 DEF SubChannel, TypeOK, EventAdds
  <2>14. ASSUME NEW k \in Subids, NEW s, NEW ty, EventCancelRequest(k, s, ty)
         PROVE  Same
    BY <2>2, <2>13, <2>14, RefusesClean
       DEF EventCancelRequest, Fails, circuitVars
  <2>15. ASSUME NEW k \in Subids, NEW s, NEW ty, EventCancelResponse(k, s, ty)
         PROVE  Same
    BY <2>1, <2>2, <2>3, <2>13, <2>15, RefusesClean
       DEF EventCancelResponse, Fails, circuitVars
  <2>16. ASSUME NEW k \in Subids, NEW ty, NEW n, NEW empty \in BOOLEAN,
                EventAddResponse(k, ty, n, empty)
         PROVE  Same
    BY <2>1, <2>2, <2>13, <2>15, <2>16, RefusesClean
       DEF EventAddResponse, Fails, circuitVars
  <2>17. ASSUME NEW p, NEW v, VersionRequest(p, v)
         PROVE  /\ UNCHANGED <<priority, version, objectVars, indexVars,
                               subVars>>
                /\ outcome'.command = "VersionRequest"
                   \/ UNCHANGED circuit_states
    BY <2>1, <2>5, <2>17 DEF VersionRequest, Raise
  <2>18. ASSUME NEW v, VersionResponse(v)
         PROVE  Same
    BY <2>1, <2>5, <2>18 DEF VersionResponse
  <2>19. ASSUME NEW t, CircuitCommand(t)
         PROVE  Same
    BY <2>1, <2>5, <2>19 DEF CircuitCommand
  <2>20. ~Disconnect /\ \A c \in Cids : ~NewChannel(c)
    BY <2>1 DEF Disconnect, NewChannel
  <2>. HIDE DEF Same
  <2>21. \/ Same
         \/ \E p, v : VersionRequest(p, v)
         \/ \E c \in Cids : \E s, n : CreateChanResponse(c, s, n)
         \/ UNCHANGED vars
    BY <2>4, <2>6, <2>8, <2>9, <2>10, <2>11, <2>12, <2>14, <2>15,
       <2>16, <2>18, <2>19, <2>20
       DEF Next, CreateChFailResponse, AccessRightsResponse,
           ClearChannelRequest
  <2>. QED  BY <2>4, <2>7, <2>17, <2>21 DEF Same, objectVars
<1>. QED  BY <1>1, InvHolds, PTL DEF Spec, RejectionIsAtomic

(***************************************************************************)
(* Negotiation.                                                            *)
(***************************************************************************)
\* Whatever either side says and whenever it says it, the version of a circuit
\* only goes down, and its priority, once known, stays (process_command on
\* VersionRequest and VersionResponse).
THEOREM NegotiationOnlyLowers == Spec => NegotiationIsMonotone
<1>1. TypeOK /\ [Next]_vars =>
        [version' <= version /\ (priority # None => priority' = priority)]_vars
  <2>. SUFFICES ASSUME TypeOK, Next
                PROVE  version' <= version /\ (priority # None => priority' = priority)
    OBVIOUS
  <2>0. version \in Nat /\ Versions \subseteq Nat
    BY VersionAssumption DEF TypeOK
  <2>1. CASE UNCHANGED <<priority, version>>
    BY <2>0, <2>1
  <2>2. ASSUME NEW v \in Versions, Negotiate(v) PROVE version' <= version
    BY <2>0, <2>2 DEF Negotiate, Min2
  <2>3. ASSUME NEW p \in Priorities, NEW v \in Versions, VersionRequest(p, v)
        PROVE  version' <= version /\ (priority # None => priority' = priority)
    BY <2>1, <2>2, <2>3 DEF VersionRequest, CircuitRefuses
  <2>4. ASSUME NEW v \in Versions, VersionResponse(v)
        PROVE  version' <= version /\ (priority # None => priority' = priority)
    BY <2>1, <2>2, <2>4 DEF VersionResponse, CircuitRefuses
  <2>5. ASSUME NEW t, CircuitCommand(t) \/ Disconnect PROVE UNCHANGED <<priority, version>>
    BY <2>5 DEF CircuitCommand, CircuitRefuses, Disconnect
  <2>6. ASSUME NEW c \in Cids, NewChannel(c) \/ CreateChanRequest(c)
                               \/ (\E s \in Sids, n \in Natives :
                                     CreateChanResponse(c, s, n))
                               \/ CreateChFailResponse(c)
                               \/ AccessRightsResponse(c)
                               \/ ClearChannelRequest(c)
                               \/ \E t \in CloseCommands : CloseResponse(t, c)
        PROVE  UNCHANGED <<priority, version>>
    BY <2>6 DEF NewChannel, CreateChanRequest, CreateChanResponse, ByCid,
                CreateChFailResponse, AccessRightsResponse,
                ClearChannelRequest, CloseResponse, circuitVars
  <2>7. ASSUME NEW t, NEW i, NEW s, IoRequest(t, s, i) \/ IoResponse(t, i)
        PROVE  UNCHANGED <<priority, version>>
    BY <2>7 DEF IoRequest, IoResponse, circuitVars
  <2>8. ASSUME NEW k, NEW s, NEW ty, NEW n,
               EventAddRequest(k, s, ty, n) \/ EventCancelRequest(k, s, ty)
               \/ EventCancelResponse(k, s, ty)
        PROVE  UNCHANGED <<priority, version>>
    BY <2>8 DEF EventAddRequest, EventCancelRequest, EventCancelResponse, circuitVars
  <2>9. ASSUME NEW k, NEW ty, NEW n, NEW empty, EventAddResponse(k, ty, n, empty)
        PROVE  UNCHANGED <<priority, version>>
    BY <2>8, <2>9 DEF EventAddResponse, circuitVars
  <2>. QED  BY <2>1, <2>3, <2>4, <2>5, <2>6, <2>7, <2>8, <2>9 DEF Next, CloseCommands
<1>. QED  BY <1>1, TypeCorrect, PTL DEF Spec, NegotiationIsMonotone
=============================================================================
