-------------------- MODULE PortForwardControllerProofs --------------------
(***************************************************************************)
(* Proofs about the controlling side of port forwarding: the listener of a *)
(* mapping, and the logins of the mappings of one window.                  *)
(*                                                                         *)
(* One tunnel at a time, for any number of accepts and commands: OneTunnel *)
(* and MuxedIsServed are not inductive, because a login that is under way  *)
(* would publish a second tunnel, and a late reset would take Legacy back. *)
(* IInv adds what keeps them from it: while an accept that was told        *)
(* Claimed probes, the state is Unset or Failed and no loop is alive, so   *)
(* that nothing but this accept writes the state.                          *)
(*                                                                         *)
(* Every login carries its mapping's own target, mode and challenge, for   *)
(* any set of mappings and any number of typed passwords.  The handler is  *)
(* shared, so the invariant says whose values it holds: the turn's owner   *)
(* finds in it what it has filled in so far.                               *)
(***************************************************************************)
EXTENDS PortForwardListener, PortForwardLogin, FiniteSetTheorems, TLAPS

----------------------------------------------------------------------------
(* The logins. *)

InTurnPcs == {"fill_target", "fill_mux", "fill_all", "handle_hash", "handle_login", "build",
              "sending"}

\* Only the owner of the turn lock is between filling lc and having sent.
TurnInv == \A m \in Mappings : pc[m] \in InTurnPcs => turn = m

\* What the owner has filled in is still there.
FilledInv == \A m \in Mappings :
    /\ pc[m] \in {"fill_mux", "handle_hash", "handle_login", "build"} => lc.target = m
    /\ pc[m] \in {"handle_hash", "handle_login", "build"} => lc.mux = (m \in Probing)
    /\ pc[m] = "handle_login" => lc.hash = m
    /\ pc[m] = "build" => answer[m][1] = m

ShapeInv ==
    /\ lc = [target |-> lc.target, mux |-> lc.mux, hash |-> lc.hash, password |-> lc.password,
             shared_password |-> lc.shared_password]
    /\ pc = [m \in Mappings |-> pc[m]]
    /\ sent = [m \in Mappings |-> sent[m]]
    /\ answer = [m \in Mappings |-> answer[m]]

LoginInv == ShapeInv /\ TurnInv /\ FilledInv /\ OwnLogin

\* LoginInv holds when the window opens.
LEMMA LoginsStart == LoginInit => LoginInv
  BY SMTT(60), LoginAssumption
     DEF LoginInit, LoginInv, ShapeInv, TurnInv, FilledInv, OwnLogin, InTurnPcs

\* No step of any mapping or of the user breaks LoginInv.
LEMMA LoginsStep == LoginInv /\ [LoginNext]_loginVars => LoginInv'
<1> SUFFICES ASSUME LoginInv, [LoginNext]_loginVars PROVE LoginInv'
  OBVIOUS
<1> USE LoginAssumption DEF LoginInv, ShapeInv, TurnInv, FilledInv, OwnLogin, InTurnPcs
<1>1. CASE Type
  BY SMTT(60), <1>1 DEF Type
<1>2. ASSUME NEW m \in Mappings, HashArrives(m) PROVE LoginInv'
  BY SMTT(60), <1>2 DEF HashArrives
<1>3. ASSUME NEW m \in Mappings, LoginTyped(m) PROVE LoginInv'
  BY SMTT(60), <1>3 DEF LoginTyped
<1>4. ASSUME NEW m \in Mappings, TakeTurn(m) PROVE LoginInv'
  BY SMTT(60), <1>4 DEF TakeTurn
<1>5. ASSUME NEW m \in Mappings, FillTarget(m) PROVE LoginInv'
  <2>1. lc'.target = m
    BY <1>5 DEF FillTarget
  <2>2. lc' = [target |-> lc'.target, mux |-> lc'.mux, hash |-> lc'.hash,
               password |-> lc'.password, shared_password |-> lc'.shared_password]
    BY <1>5 DEF FillTarget
  <2>3. /\ pc[m] = "fill_target" /\ pc' = [pc EXCEPT ![m] = "fill_mux"]
        /\ turn' = turn /\ sent' = sent /\ answer' = answer
    BY SMTT(60), <1>5 DEF FillTarget
  <2>4. TurnInv'
    BY SMTT(60), <2>3
  <2>5. turn = m /\ \A k \in Mappings : k # m => pc[k] \notin InTurnPcs
    BY SMTT(60), <2>3
  <2>6. FilledInv'
    BY SMTT(60), <2>1, <2>3, <2>5
  <2> QED
    BY <2>2, <2>3, <2>4, <2>6
<1>6. ASSUME NEW m \in Mappings, FillMux(m) PROVE LoginInv'
  <2>1. lc'.target = lc.target /\ lc'.mux = (m \in Probing)
    BY <1>6 DEF FillMux
  <2>2. lc' = [target |-> lc'.target, mux |-> lc'.mux, hash |-> lc'.hash,
               password |-> lc'.password, shared_password |-> lc'.shared_password]
    BY <1>6 DEF FillMux
  <2>3. /\ pc[m] = "fill_mux" /\ pc' = [pc EXCEPT ![m] = "handle_hash"]
        /\ turn' = turn /\ sent' = sent /\ answer' = answer
    BY SMTT(60), <1>6 DEF FillMux
  <2>4. TurnInv'
    BY SMTT(60), <2>3
  <2>5. turn = m /\ \A k \in Mappings : k # m => pc[k] \notin InTurnPcs
    BY SMTT(60), <2>3
  <2>6. FilledInv'
    BY SMTT(60), <2>1, <2>3, <2>5
  <2> QED
    BY <2>2, <2>3, <2>4, <2>6
<1>7. ASSUME NEW m \in Mappings, FillAll(m) PROVE LoginInv'
  <2>1. lc'.target = m /\ lc'.mux = (m \in Probing) /\ lc'.hash = m
    BY <1>7 DEF FillAll
  <2>2. lc' = [target |-> lc'.target, mux |-> lc'.mux, hash |-> lc'.hash,
               password |-> lc'.password, shared_password |-> lc'.shared_password]
    BY ZenonT(60), <1>7 DEF FillAll
  <2>3. /\ pc[m] = "fill_all" /\ pc' = [pc EXCEPT ![m] = "handle_login"]
        /\ turn' = turn /\ sent' = sent /\ answer' = answer
    BY <1>7 DEF FillAll
  <2>4. TurnInv'
    BY <2>3
  <2>5. turn = m /\ \A k \in Mappings : k # m => pc[k] \notin InTurnPcs
    BY SMTT(60), <2>3
  <2>6. FilledInv'
    BY SMTT(60), <2>1, <2>3, <2>5
  <2> QED
    BY <2>2, <2>3, <2>4, <2>6
<1>8. ASSUME NEW m \in Mappings, HandleHash(m) PROVE LoginInv'
  <2>1. lc'.target = lc.target /\ lc'.mux = lc.mux
    BY <1>8 DEF HandleHash
  <2>2. lc' = [target |-> lc'.target, mux |-> lc'.mux, hash |-> lc'.hash,
               password |-> lc'.password, shared_password |-> lc'.shared_password]
    BY ZenonT(60), <1>8 DEF HandleHash
  <2>3. /\ pc[m] = "handle_hash" /\ pc' = [pc EXCEPT ![m] = "build"]
        /\ turn' = turn /\ sent' = sent
    BY <1>8 DEF HandleHash
  <2>4. answer'[m][1] = m /\ answer' = [k \in Mappings |-> answer'[k]]
    BY ZenonT(60), <1>8 DEF HandleHash
  <2>5. TurnInv'
    BY <2>3
  <2>6. turn = m /\ \A k \in Mappings : k # m => pc[k] \notin InTurnPcs
    BY SMTT(60), <2>3
  <2>7. FilledInv'
    BY SMTT(60), <2>1, <2>3, <2>4, <2>6
  <2> QED
    BY <2>2, <2>3, <2>4, <2>5, <2>7
<1>9. ASSUME NEW m \in Mappings, HandleLogin(m) PROVE LoginInv'
  <2>1. lc'.target = lc.target /\ lc'.mux = lc.mux
    BY <1>9 DEF HandleLogin
  <2>2. lc' = [target |-> lc'.target, mux |-> lc'.mux, hash |-> lc'.hash,
               password |-> lc'.password, shared_password |-> lc'.shared_password]
    BY <1>9 DEF HandleLogin
  <2>3. /\ pc[m] = "handle_login" /\ pc' = [pc EXCEPT ![m] = "build"]
        /\ turn' = turn /\ sent' = sent
    BY <1>9 DEF HandleLogin
  <2>4. answer'[m][1] = m /\ answer' = [k \in Mappings |-> answer'[k]]
    BY ZenonT(60), <1>9 DEF HandleLogin
  <2>5. TurnInv'
    BY <2>3
  <2>6. turn = m /\ \A k \in Mappings : k # m => pc[k] \notin InTurnPcs
    BY SMTT(60), <2>3
  <2>7. FilledInv'
    BY <2>1, <2>3, <2>4, <2>6
  <2> QED
    BY <2>2, <2>3, <2>4, <2>5, <2>7
<1>10. ASSUME NEW m \in Mappings, SendLogin(m) PROVE LoginInv'
  BY ZenonT(60), <1>10 DEF SendLogin
<1>11. ASSUME NEW m \in Mappings, EndTurn(m) PROVE LoginInv'
  BY <1>11 DEF EndTurn
<1>12. ASSUME NEW m \in Mappings, LoginAccepted(m) \/ ConnectionLost(m) PROVE LoginInv'
  BY <1>12 DEF LoginAccepted, ConnectionLost
<1>13. ASSUME NEW m \in Mappings, LoginRefused(m) PROVE LoginInv'
  BY <1>13 DEF LoginRefused
<1>14. CASE UNCHANGED loginVars
  BY <1>14 DEF loginVars
<1> QED
  BY ZenonT(60), <1>1, <1>2, <1>3, <1>4, <1>5, <1>6, <1>7, <1>8, <1>9, <1>10, <1>11,
     <1>12, <1>13, <1>14
     DEF LoginNext, InTurn

\* The turn lock makes every login its mapping's own, for any set of mappings.
THEOREM LoginsAreOwn == LoginSpec => []OwnLogin
<1>1. LoginInv => OwnLogin
  BY DEF LoginInv
<1> QED
  BY LoginsStart, LoginsStep, <1>1, PTL DEF LoginSpec

----------------------------------------------------------------------------
(* What was typed is what is sent. *)

\* The hash path is taken without a typed password only; on the other path the
\* answer is made of the typed one, and stays this mapping's.
TypedInv == \A m \in Mappings :
    /\ pc[m] \in {"fill_target", "fill_mux", "handle_hash"} => login[m] = None
    /\ pc[m] = "build" /\ login[m] \notin {None} \cup Blank => answer[m][2] = login[m]
    /\ pc[m] = "sending" /\ login[m] \notin {None} \cup Blank => sent[m][1].password = login[m]

TypedShape ==
    /\ pc = [m \in Mappings |-> pc[m]]
    /\ login = [m \in Mappings |-> login[m]]
    /\ sent = [m \in Mappings |-> sent[m]]
    /\ answer = [m \in Mappings |-> answer[m]]

\* Updating a function leaves its domain alone.
LEMMA ExceptShape ==
    ASSUME NEW S, NEW f, f = [n \in S |-> f[n]], NEW m \in S, NEW v
    PROVE  [f EXCEPT ![m] = v] = [n \in S |-> [f EXCEPT ![m] = v][n]]
  BY SMTT(60)

\* A login that answers the prompt carries what was typed for it, if anything was,
\* whatever the other mappings leave in the shared handler meanwhile (TypedIsSent).
THEOREM TypedPasswordsAreSent == LoginSpec => []TypedIsSent
<1> USE DEF TypedInv, TypedShape
<1>1. LoginInit => TypedShape /\ TypedInv
  BY SMTT(60) DEF LoginInit
<1>2. TypedShape /\ TypedInv /\ [LoginNext]_loginVars => (TypedShape /\ TypedInv)'
  <2> SUFFICES ASSUME TypedShape, TypedInv, [LoginNext]_loginVars PROVE (TypedShape /\ TypedInv)'
    BY SMTT(60)
  <2>1. CASE Type \/ UNCHANGED loginVars
    BY SMTT(60), <2>1 DEF Type, loginVars
  <2>2. ASSUME NEW m \in Mappings, HashArrives(m) \/ LoginTyped(m) \/ TakeTurn(m)
        PROVE  (TypedShape /\ TypedInv)'
    BY <2>2 DEF HashArrives, LoginTyped, TakeTurn
  <2>3. ASSUME NEW m \in Mappings, FillTarget(m) \/ FillMux(m) \/ FillAll(m)
        PROVE  (TypedShape /\ TypedInv)'
    BY SMTT(60), <2>3 DEF FillTarget, FillMux, FillAll
  <2>4. ASSUME NEW m \in Mappings, HandleHash(m) \/ HandleLogin(m)
        PROVE  (TypedShape /\ TypedInv)'
    <3>1. PICK c, p :
             /\ pc[m] \in {"handle_hash", "handle_login"} /\ pc' = [pc EXCEPT ![m] = "build"]
             /\ answer' = [answer EXCEPT ![m] = <<c, p>>] /\ UNCHANGED <<login, sent>>
             /\ pc[m] = "handle_login" /\ login[m] \notin Blank => p = login[m]
      <4>1. CASE HandleHash(m)
        BY ZenonT(60), <4>1 DEF HandleHash
      <4>2. CASE HandleLogin(m)
        BY ZenonT(60), <4>2 DEF HandleLogin
      <4> QED
        BY ZenonT(60), <2>4, <4>1, <4>2
    <3>2. TypedShape'
      <4>1. pc' = [n \in Mappings |-> pc'[n]]
        BY ZenonT(60), ExceptShape, <3>1
      <4>2. answer' = [n \in Mappings |-> answer'[n]]
        BY ZenonT(60), ExceptShape, <3>1
      <4> QED
        BY ZenonT(60), <3>1, <4>1, <4>2
    <3>3. /\ pc'[m] = "build" /\ answer'[m] = <<c, p>>
          /\ \A n \in Mappings \ {m} : pc'[n] = pc[n] /\ answer'[n] = answer[n]
      BY ZenonT(60), <3>1
    <3>4. <<c, p>>[2] = p
      BY SMTT(60)
    <3>5. pc[m] = "handle_hash" => login[m] = None
      BY ZenonT(60)
    <3>6. login[m] \notin {None} \cup Blank => answer'[m][2] = login[m]
      BY ZenonT(60), <3>1, <3>3, <3>4, <3>5
    <3>7. login' = login /\ sent' = sent
      BY <3>1
    <3>8. ASSUME NEW n \in Mappings
          PROVE  /\ pc'[n] \in {"fill_target", "fill_mux", "handle_hash"} => login'[n] = None
                 /\ pc'[n] = "build" /\ login'[n] \notin {None} \cup Blank
                       => answer'[n][2] = login'[n]
                 /\ pc'[n] = "sending" /\ login'[n] \notin {None} \cup Blank
                       => sent'[n][1].password = login'[n]
      <4>1. CASE n = m
        <5> HIDE DEF TypedInv, TypedShape
        <5> QED
          BY SMTT(60), <3>3, <3>6, <3>7, <4>1
      <4>2. CASE n # m
        BY ZenonT(60), <3>3, <3>7, <4>2
      <4> QED
        BY <4>1, <4>2
    <3> QED
      BY ZenonT(60), <3>2, <3>8
  <2>5. ASSUME NEW m \in Mappings, SendLogin(m) \/ EndTurn(m)
        PROVE  (TypedShape /\ TypedInv)'
    BY <2>5 DEF SendLogin, EndTurn
  <2>6. ASSUME NEW m \in Mappings, LoginAccepted(m) \/ LoginRefused(m) \/ ConnectionLost(m)
        PROVE  (TypedShape /\ TypedInv)'
    BY SMTT(60), <2>6 DEF LoginAccepted, LoginRefused, ConnectionLost
  <2> QED
    BY SMTT(60), <2>1, <2>2, <2>3, <2>4, <2>5, <2>6 DEF LoginNext, InTurn
<1>3. TypedInv => TypedIsSent
  BY DEF TypedIsSent
<1> QED
  BY <1>1, <1>2, <1>3, PTL DEF LoginSpec

----------------------------------------------------------------------------
(* The listener. *)

Commands == {"Login", "Continue", "Reject", "Close"}
InLogin == {"starting", "confirming", "login"}
Busy == InLogin \cup {"publishing", "spawning"}
Count == Cardinality(Started)

\* Generations are numbered as they are spawned, each by an accept of its own.
Numbered ==
    /\ Count \in Nat /\ Started = 1 .. Count
    /\ Count + (IF phase \in Busy THEN 1 ELSE 0) <= accepts

NoneAlive == \A g \in Gens : ~Alive(g)

Probes ==
    /\ (phase \in InLogin /\ claim = "Claimed") \/ phase = "publishing" =>
          state \in {"Unset", "Failed"} /\ NoneAlive /\ MuxEnabled
    /\ phase \in InLogin => claim \in {"Claimed", "Legacy"}
    /\ phase \in InLogin /\ claim = "Legacy" => state = "Legacy" \/ ~MuxEnabled
    /\ phase = "spawning" => state = "Muxed" /\ handle = NextGen /\ NoneAlive

Modes ==
    /\ ~MuxEnabled => state = "Unset"
    /\ pipes > 0 => state = "Legacy" \/ ~MuxEnabled

IInv == TypeOK /\ Numbered /\ Probes /\ Modes /\ OneTunnel /\ MuxedIsServed

----------------------------------------------------------------------------

LEMMA CountOf ==
    ASSUME NEW n \in Nat PROVE Cardinality(1 .. n) = n
<1>1. Cardinality(1 .. n) = IF 1 > n THEN 0 ELSE n - 1 + 1
  BY FS_Interval
<1> QED
  BY <1>1

LEMMA ListenerInit ==
    ASSUME Init PROVE IInv
<1>1. Started = {} /\ NoneAlive
  BY DEF Init, Started, NoneAlive, Alive
<1>2. Count = 0
  BY <1>1, FS_EmptySet DEF Count
<1>3. Numbered
  BY <1>1, <1>2 DEF Numbered, Init, Busy, InLogin
<1>4. TypeOK
  <2>1. ui \in Seq(Commands) /\ 0 \in 0 .. MaxAccepts
    BY ListenerAssumption DEF Init
  <2> QED
    BY ZenonT(60), <2>1 DEF Init, TypeOK, NoGen, Commands
<1> QED
  BY <1>1, <1>3, <1>4, ListenerAssumption
     DEF IInv, Init, Probes, Modes, OneTunnel, MuxedIsServed, NoneAlive, InLogin

\* A step that spawns nothing keeps the numbers.
LEMMA SameGenerations ==
    ASSUME IInv, \A g \in Gens : loops'[g] # "none" <=> loops[g] # "none"
    PROVE  Started' = Started /\ Count' = Count /\ NextGen' = NextGen
<1>1. Started' = Started
  BY DEF Started
<1> QED
  BY <1>1 DEF Count, NextGen

\* The user, the window and the end of a raw pipe leave the tunnel alone.
LEMMA UserStep ==
    ASSUME IInv,
           \/ \E c \in {"Login", "Continue", "Reject"} : Command(c)
           \/ RemovePortForward \/ LoginUi \/ PipeEnds
    PROVE  IInv'
<1>1. UNCHANGED <<phase, claim, local_eof, state, handle, loops, accepts>>
      /\ pipes' \in Nat /\ (pipes' > 0 => pipes > 0)
  BY DEF IInv, TypeOK, Command, RemovePortForward, LoginUi, PipeEnds, tunnel, userVars
<1>2. ui' \in Seq(Commands) /\ mapped' \in BOOLEAN
  <2>1. ui \in Seq(Commands) /\ mapped \in BOOLEAN
    BY DEF IInv, TypeOK, Commands
  <2>2. ASSUME NEW c \in Commands PROVE Append(ui, c) \in Seq(Commands)
    BY <2>1
  <2>3. ui # <<>> => Tail(ui) \in Seq(Commands)
    BY <2>1
  <2>4. /\ ui' \in {ui} \cup {Append(ui, c) : c \in Commands} \/ (ui # <<>> /\ ui' = Tail(ui))
        /\ mapped' \in {mapped, FALSE}
    BY ZenonT(60) DEF Command, RemovePortForward, LoginUi, PipeEnds, userVars, Commands
  <2> QED
    BY ZenonT(60), <2>1, <2>2, <2>3, <2>4
<1>3. Started' = Started /\ Count' = Count /\ NextGen' = NextGen
  BY <1>1, SameGenerations
<1>4. TypeOK'
  BY <1>1, <1>2 DEF IInv, TypeOK, Commands
<1>5. Numbered'
  BY <1>1, <1>3 DEF IInv, Numbered
<1> QED
  BY <1>1, <1>3, <1>4, <1>5
     DEF IInv, Probes, Modes, OneTunnel, MuxedIsServed, NoneAlive, Alive

\* An accept is told Claimed only with no tunnel there: OneTunnel and the state
\* say so.
LEMMA AcceptStep ==
    ASSUME IInv, Accept PROVE IInv'
<1>1. /\ phase = "listening" /\ accepts' = accepts + 1 /\ accepts < MaxAccepts
      /\ UNCHANGED <<ui, mapped, state, handle, loops, pipes>>
  BY DEF Accept, userVars
<1>2. Started' = Started /\ Count' = Count /\ NextGen' = NextGen
  BY <1>1, SameGenerations
<1>3. \/ UNCHANGED <<phase, claim, local_eof>>
      \/ Claim # "Muxed" /\ claim' = Claim /\ local_eof' = FALSE /\ phase' = "starting"
  BY DEF Accept
<1>4. Claim \in {"Legacy", "Claimed", "Muxed"}
      /\ (Claim = "Claimed" => MuxEnabled /\ state \in {"Unset", "Failed"})
      /\ (Claim = "Legacy" => state = "Legacy" \/ ~MuxEnabled)
  BY DEF Claim, IInv, TypeOK
<1>5. TypeOK'
  <2>1. accepts' \in 0 .. MaxAccepts
    BY <1>1, ListenerAssumption DEF IInv, TypeOK
  <2> QED
    BY ZenonT(60), <1>1, <1>3, <1>4, <2>1 DEF IInv, TypeOK
<1>6. Numbered'
  BY <1>1, <1>2 DEF IInv, TypeOK, Numbered, Busy, InLogin
<1>7. state \in {"Unset", "Failed"} => NoneAlive
  BY DEF IInv, OneTunnel, NoneAlive
<1>8. Probes' /\ Modes'
  BY <1>1, <1>2, <1>3, <1>4, <1>7 DEF IInv, Probes, Modes, NoneAlive, Alive, InLogin
<1>9. OneTunnel' /\ MuxedIsServed'
  BY <1>1, <1>2 DEF IInv, OneTunnel, MuxedIsServed, Alive
<1> QED
  BY <1>5, <1>6, <1>8, <1>9 DEF IInv

\* The accept loop between the accept and the login's success: it moves on, or
\* gives up and leaves Failed where it had claimed.
LEMMA LoginStep ==
    ASSUME IInv, ListenUi \/ ClientStart \/ Confirm \/ LocalEof \/ LoginFails PROVE IInv'
<1>1. UNCHANGED <<claim, mapped, loops, pipes, accepts>>
  BY DEF ListenUi, ClientStart, Confirm, LocalEof, LoginFails, Fails, userVars, tunnel
<1>2. Started' = Started /\ Count' = Count /\ NextGen' = NextGen
  BY <1>1, SameGenerations
<1>3. ui' \in Seq(Commands) /\ local_eof' \in BOOLEAN
  <2>1. ui \in Seq(Commands) /\ local_eof \in BOOLEAN
    BY DEF IInv, TypeOK, Commands
  <2>2. ui # <<>> => Tail(ui) \in Seq(Commands)
    BY <2>1
  <2>3. ui' = ui \/ (ui # <<>> /\ ui' = Tail(ui))
    BY DEF ListenUi, ClientStart, Confirm, LocalEof, LoginFails, Fails, userVars
  <2>4. local_eof' = local_eof \/ local_eof' = TRUE
    BY DEF ListenUi, ClientStart, Confirm, LocalEof, LoginFails, Fails
  <2> QED
    BY ZenonT(60), <2>1, <2>2, <2>3, <2>4
<1>4. /\ \/ phase = "listening" /\ phase' \in {"listening", "closed"}
         \/ phase \in InLogin /\ phase' \in InLogin \cup {"listening", "closed"}
      /\ \/ UNCHANGED <<state, handle>>
         \/ phase \in InLogin /\ claim = "Claimed" /\ phase' \notin InLogin
              /\ state' = "Failed" /\ handle' = NoGen
  BY DEF ListenUi, ClientStart, Confirm, LocalEof, LoginFails, Fails, SetState, tunnel, InLogin
<1>5. state' # state \/ handle' # handle => NoneAlive /\ MuxEnabled
  BY <1>4 DEF IInv, Probes
<1>6. TypeOK'
  BY <1>1, <1>3, <1>4 DEF IInv, TypeOK, Commands, InLogin
<1>7. Numbered'
  <2>1. phase' \in Busy => phase \in Busy
    BY <1>4 DEF Busy, InLogin
  <2>2. accepts \in Nat /\ Count \in Nat
    BY DEF IInv, TypeOK, Numbered
  <2> QED
    BY <1>1, <1>2, <2>1, <2>2 DEF IInv, Numbered
<1>8. Probes'
  BY <1>1, <1>2, <1>4 DEF IInv, Probes, NoneAlive, Alive, InLogin
<1>9. Modes'
  <2>1. pipes > 0 => state' = state
    BY <1>4 DEF IInv, Modes, Probes
  <2> QED
    BY <1>1, <1>4, <1>5, <2>1 DEF IInv, Modes
<1>10. OneTunnel' /\ MuxedIsServed'
  BY <1>1, <1>2, <1>4, <1>5 DEF IInv, OneTunnel, MuxedIsServed, Alive, NoneAlive, InLogin
<1> QED
  BY <1>6, <1>7, <1>8, <1>9, <1>10 DEF IInv

LEMMA SucceedsStep ==
    ASSUME IInv, NEW mux \in BOOLEAN, LoginSucceeds(mux) PROVE IInv'
<1>1. phase = "login" /\ UNCHANGED <<claim, local_eof, ui, mapped, loops, accepts>>
  BY DEF LoginSucceeds, userVars
<1>2. Started' = Started /\ Count' = Count /\ NextGen' = NextGen
  BY <1>1, SameGenerations
<1>3. \/ claim = "Claimed" /\ phase' = "publishing" /\ UNCHANGED <<state, handle, pipes>>
      \/ claim = "Claimed" /\ phase' = "listening" /\ state' = "Legacy" /\ handle' = NoGen
         /\ pipes' \in {pipes, pipes + 1}
      \/ claim # "Claimed" /\ phase' = "listening" /\ UNCHANGED <<state, handle>>
         /\ pipes' \in {pipes, pipes + 1}
  BY DEF LoginSucceeds, SetState
<1>4. claim = "Claimed" => NoneAlive /\ MuxEnabled /\ state \in {"Unset", "Failed"}
  BY <1>1 DEF IInv, Probes, InLogin
<1>5. claim # "Claimed" => state = "Legacy" \/ ~MuxEnabled
  BY <1>1 DEF IInv, Probes, InLogin
<1>6. TypeOK'
  BY <1>1, <1>3 DEF IInv, TypeOK
<1>7. Numbered'
  BY <1>1, <1>2, <1>3 DEF IInv, TypeOK, Numbered, Busy, InLogin
<1>8. Probes'
  BY <1>1, <1>2, <1>3, <1>4 DEF Probes, NoneAlive, Alive, InLogin
<1>9. Modes'
  BY <1>3, <1>4, <1>5 DEF IInv, Modes
<1>10. OneTunnel' /\ MuxedIsServed'
  BY <1>1, <1>2, <1>3, <1>4 DEF IInv, OneTunnel, MuxedIsServed, Alive, NoneAlive
<1> QED
  BY <1>6, <1>7, <1>8, <1>9, <1>10 DEF IInv

\* set_muxed and the spawning of the loop, in this order.
LEMMA PublishStep ==
    ASSUME IInv, SetMuxed PROVE IInv'
<1>1. /\ phase = "publishing" /\ phase' = "spawning" /\ state' = "Muxed" /\ handle' = NextGen
      /\ UNCHANGED <<claim, local_eof, ui, mapped, loops, pipes, accepts>>
  BY DEF SetMuxed, userVars
<1>2. Started' = Started /\ Count' = Count /\ NextGen' = NextGen
  BY <1>1, SameGenerations
<1>3. NoneAlive /\ MuxEnabled /\ state \in {"Unset", "Failed"}
  BY <1>1 DEF IInv, Probes
<1>4. NextGen \in Gens
  BY <1>1, ListenerAssumption DEF IInv, TypeOK, Numbered, Count, NextGen, Gens, Busy
<1>5. TypeOK'
  BY <1>1, <1>4 DEF IInv, TypeOK
<1>6. Numbered'
  BY <1>1, <1>2 DEF IInv, Numbered, Busy
<1>7. Probes'
  BY <1>1, <1>2, <1>3 DEF Probes, NoneAlive, Alive, InLogin
<1>8. Modes' /\ OneTunnel' /\ MuxedIsServed'
  BY <1>1, <1>2, <1>3 DEF IInv, Modes, OneTunnel, MuxedIsServed, Alive, NoneAlive
<1> QED
  BY <1>5, <1>6, <1>7, <1>8 DEF IInv

LEMMA SpawnStep ==
    ASSUME IInv, SpawnLoop PROVE IInv'
<1>1. /\ phase = "spawning" /\ phase' = "listening"
      /\ loops' = [loops EXCEPT ![NextGen] = "running"]
      /\ UNCHANGED <<claim, local_eof, ui, mapped, state, handle, pipes, accepts>>
  BY DEF SpawnLoop, userVars
<1>2. state = "Muxed" /\ handle = NextGen /\ NoneAlive
  BY <1>1 DEF IInv, Probes
<1>3. /\ NextGen \in Gens /\ NextGen = Count + 1 /\ Count \in Nat /\ Started = 1 .. Count
      /\ Count + 1 <= accepts
  BY <1>1, ListenerAssumption DEF IInv, TypeOK, Numbered, Count, NextGen, Gens, Busy
<1>4. /\ loops' \in [Gens -> {"none", "running", "broken", "cleared", "returned"}]
      /\ loops'[NextGen] = "running"
      /\ \A g \in Gens \ {NextGen} : loops'[g] = loops[g]
  BY <1>1, <1>3 DEF IInv, TypeOK
<1>5. Started' = 1 .. (Count + 1)
  <2>1. Started' = Started \cup {NextGen}
    BY ZenonT(60), <1>3, <1>4 DEF Started
  <2> QED
    BY <1>3, <2>1
<1>6. Count' = Count + 1
  BY <1>3, <1>5, CountOf DEF Count
<1>7. TypeOK'
  BY <1>1, <1>4 DEF IInv, TypeOK
<1>8. Numbered'
  <2>1. accepts' = accepts /\ phase' \notin Busy
    BY <1>1 DEF Busy, InLogin
  <2> QED
    BY <1>3, <1>5, <1>6, <2>1 DEF IInv, TypeOK, Numbered
<1>9. Probes' /\ Modes'
  BY <1>1 DEF IInv, Probes, Modes, InLogin
<1>10. OneTunnel' /\ MuxedIsServed'
  BY <1>1, <1>2, <1>3, <1>4 DEF OneTunnel, MuxedIsServed, Alive, NoneAlive
<1> QED
  BY <1>7, <1>8, <1>9, <1>10 DEF IInv

\* A tunnel loop: alive, it is the one the state names, so its reset cannot
\* hit the state another accept has left.
LEMMA LoopStep ==
    ASSUME IInv, NEW g \in Gens, TunnelLoop(g) PROVE IInv'
<1>1. /\ UNCHANGED <<phase, claim, local_eof, ui, mapped, pipes, accepts>>
      /\ Alive(g)
      /\ \/ loops' = [loops EXCEPT ![g] = "broken"] /\ UNCHANGED <<state, handle>>
         \/ loops' = [loops EXCEPT ![g] = "cleared"] /\ UNCHANGED <<state, handle>>
         \/ loops' = [loops EXCEPT ![g] = "returned"] /\ state' = "Unset" /\ handle' = NoGen
  BY DEF TunnelLoop, LoopBreaks, CloseAll, ResetState, SetState, userVars, Alive
<1>2. /\ state = "Muxed" /\ handle = g
      /\ phase # "publishing" /\ phase # "spawning"
      /\ ~(phase \in InLogin /\ claim = "Claimed") /\ MuxEnabled
      /\ \A h \in Gens \ {g} : ~Alive(h)
  <2>1. state = "Muxed" /\ handle = g /\ \A h \in Gens \ {g} : ~Alive(h)
    BY <1>1 DEF IInv, OneTunnel
  <2>2. ~NoneAlive
    BY <1>1 DEF NoneAlive
  <2> QED
    BY <2>1, <2>2 DEF IInv, Probes, Modes
<1>3. /\ loops' \in [Gens -> {"none", "running", "broken", "cleared", "returned"}]
      /\ loops'[g] # "none" /\ \A h \in Gens \ {g} : loops'[h] = loops[h]
      /\ \/ loops'[g] \in {"broken", "cleared"} /\ UNCHANGED <<state, handle>>
         \/ loops'[g] = "returned" /\ state' = "Unset" /\ handle' = NoGen
  BY <1>1 DEF IInv, TypeOK
<1>4. Started' = Started /\ Count' = Count /\ NextGen' = NextGen
  BY <1>1, <1>3, SameGenerations DEF Alive
<1>5. TypeOK'
  BY <1>1, <1>3 DEF IInv, TypeOK
<1>6. Numbered'
  BY <1>1, <1>4 DEF IInv, Numbered
<1>7. Probes'
  BY <1>1, <1>2 DEF IInv, Probes
<1>8. Modes'
  BY <1>1, <1>2, <1>3 DEF IInv, Modes
<1>9. OneTunnel' /\ MuxedIsServed'
  BY <1>1, <1>2, <1>3, <1>4 DEF OneTunnel, MuxedIsServed, Alive
<1> QED
  BY <1>5, <1>6, <1>7, <1>8, <1>9 DEF IInv

\* The invariant holds throughout, for any number of accepts and commands.
THEOREM ListenerInvariant == Spec => []IInv
<1>1. IInv /\ [Next]_vars => IInv'
  <2> SUFFICES ASSUME IInv, [Next]_vars PROVE IInv'
    OBVIOUS
  <2>1. CASE Next
    BY ZenonT(60), <2>1, UserStep, AcceptStep, LoginStep, SucceedsStep, PublishStep,
       SpawnStep, LoopStep
       DEF Next, Login
  <2>2. CASE UNCHANGED vars
    BY <2>2 DEF vars, IInv, TypeOK, Numbered, Probes, Modes, OneTunnel, MuxedIsServed,
                NoneAlive, Alive, Count, Started, NextGen
  <2> QED
    BY <2>1, <2>2
<1> QED
  BY <1>1, ListenerInit, PTL DEF Spec

\* One tunnel at a time, and the state names it (OneTunnel).
THEOREM TunnelsAreSingle == Spec => []OneTunnel
<1>1. IInv => OneTunnel
  BY DEF IInv
<1> QED
  BY <1>1, ListenerInvariant, PTL

\* A Muxed state never outlives the loop that would reset it: publishing
\* before spawning does not pin the listener to a dead handle (MuxedIsServed).
THEOREM MuxedIsNeverDead == Spec => []MuxedIsServed
<1>1. IInv => MuxedIsServed
  BY DEF IInv
<1> QED
  BY <1>1, ListenerInvariant, PTL

\* Raw pipes and a tunnel never serve the same mapping at once (OneMode).
THEOREM ModesNeverMix == Spec => []OneMode
<1>1. IInv => OneMode
  BY DEF IInv, OneMode, OneTunnel, Modes
<1> QED
  BY <1>1, ListenerInvariant, PTL

\* A peer found without the feature is not probed again: no failure and no
\* late reset by an earlier tunnel's loop takes Legacy back (LegacyStays).
THEOREM LegacyIsFinal == Spec => LegacyStays
<1> DEFINE Stays == state = "Legacy" => state' = "Legacy"
<1>1. IInv /\ [Next]_vars => [Stays]_vars
  <2> SUFFICES ASSUME IInv, Next, state = "Legacy" PROVE state' = "Legacy"
    BY DEF vars
  <2>1. /\ ~(phase \in InLogin /\ claim = "Claimed") /\ phase # "publishing"
        /\ \A g \in Gens : ~Alive(g)
    BY DEF IInv, Probes, OneTunnel
  <2>2. ASSUME NEW g \in Gens, TunnelLoop(g) PROVE FALSE
    BY <2>1, <2>2 DEF TunnelLoop, LoopBreaks, CloseAll, ResetState, Alive
  <2>3. ASSUME NEW mux \in BOOLEAN, LoginSucceeds(mux) PROVE state' = state
    BY <2>1, <2>3 DEF LoginSucceeds, InLogin
  <2>4. ASSUME ClientStart \/ Confirm \/ LocalEof \/ LoginFails PROVE state' = state
    BY SMTT(60), <2>1, <2>4
       DEF ClientStart, Confirm, LocalEof, LoginFails, Fails, InLogin, tunnel
  <2>5. ASSUME \/ \E c \in {"Login", "Continue", "Reject"} : Command(c)
               \/ RemovePortForward \/ Accept \/ ListenUi \/ LoginUi \/ SpawnLoop \/ PipeEnds
        PROVE  state' = state
    BY <2>5 DEF Command, RemovePortForward, Accept, ListenUi, LoginUi, SpawnLoop, PipeEnds, tunnel
  <2>6. ~SetMuxed
    BY SMTT(60), <2>1 DEF SetMuxed
  <2> QED
    BY <2>2, <2>3, <2>4, <2>5, <2>6 DEF Next, Login
<1> QED
  BY <1>1, ListenerInvariant, PTL DEF Spec, LegacyStays

============================================================================
