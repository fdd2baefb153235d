------------------------ MODULE PortForwardListener ------------------------
(***************************************************************************)
(* One port mapping: its accept loop (listen), the logins it makes, the    *)
(* Tunnel it owns and the tunnel loops it spawns, one generation after the *)
(* other.                                                                  *)
(*                                                                         *)
(* The accept loop is one task: while it logs in (establish_tunnel,        *)
(* connect_and_login) it accepts nothing else, but tunnel loops run beside *)
(* it and reset the Tunnel's state when they end.  The user's commands     *)
(* come through a queue whose sender the window drops when the mapping is  *)
(* removed.  The channels of a tunnel are PortForwardChannel's.            *)
(***************************************************************************)
EXTENDS Integers, Sequences, FiniteSets

CONSTANTS
    MuxEnabled,     \* LoginConfigHandler.port_forward_mux
    MaxAccepts,     \* bound: local connections accepted
    MaxCommands     \* bound: commands the user has queued and not yet handled

ASSUME ListenerAssumption ==
    MuxEnabled \in BOOLEAN /\ MaxAccepts \in Nat /\ MaxCommands \in Nat

Gens == 1 .. MaxAccepts
NoGen == 0

VARIABLES
    phase,      \* where the accept loop is
    claim,      \* what the accept being served was told by Tunnel::claim
    local_eof,  \* the accepted connection has ended during the login
    ui,         \* the queue of user commands
    mapped,     \* the window still holds the queue's sender
    state,      \* Tunnel.state: "Unset", "Legacy", "Failed" or "Muxed"
    handle,     \* the generation a "Muxed" state hands out
    loops,      \* per generation: where its tunnel loop is
    pipes,      \* raw pipes running
    accepts     \* connections accepted so far

vars == <<phase, claim, local_eof, ui, mapped, state, handle, loops, pipes, accepts>>
tunnel == <<state, handle, loops>>
userVars == <<ui, mapped>>

Started == {g \in Gens : loops[g] # "none"}
NextGen == Cardinality(Started) + 1

Init ==
    /\ phase = "listening" /\ claim = "none" /\ local_eof = FALSE
    /\ ui = <<>> /\ mapped = TRUE
    /\ state = "Unset" /\ handle = NoGen
    /\ loops = [g \in Gens |-> "none"]
    /\ pipes = 0 /\ accepts = 0

----------------------------------------------------------------------------
(* The user, through the window. *)

\* A password prompt, an insecure-connection prompt.
Command(c) ==
    /\ mapped /\ Len(ui) < MaxCommands
    /\ ui' = Append(ui, c)
    /\ UNCHANGED <<phase, claim, local_eof, mapped, tunnel, pipes, accepts>>

\* RemovePortForward: Close, and the sender goes.
RemovePortForward ==
    /\ mapped
    /\ ui' = Append(ui, "Close")
    /\ mapped' = FALSE
    /\ UNCHANGED <<phase, claim, local_eof, tunnel, pipes, accepts>>

----------------------------------------------------------------------------
(* Tunnel *)

\* Tunnel::claim, or Legacy without asking when the setting is off.
Claim == IF ~MuxEnabled THEN "Legacy"
         ELSE IF state \in {"Unset", "Failed"} THEN "Claimed" ELSE state

SetState(s) == state' = s /\ handle' = NoGen

\* set_muxed publishes the handle, then spawns the loop.
SetMuxed ==
    /\ phase = "publishing"
    /\ state' = "Muxed" /\ handle' = NextGen
    /\ phase' = "spawning"
    /\ UNCHANGED <<claim, local_eof, userVars, loops, pipes, accepts>>

\* The caller then opens the accepted connection's channel, unless it has gone.
SpawnLoop ==
    /\ phase = "spawning"
    /\ loops' = [loops EXCEPT ![NextGen] = "running"]
    /\ phase' = "listening"
    /\ UNCHANGED <<claim, local_eof, userVars, state, handle, pipes, accepts>>

----------------------------------------------------------------------------
(* listen *)

\* With a tunnel the connection becomes a channel of it and the loop goes on.
Accept ==
    /\ phase = "listening" /\ accepts < MaxAccepts
    /\ accepts' = accepts + 1
    /\ \/ Claim = "Muxed" /\ UNCHANGED <<phase, claim, local_eof>>
       \/ /\ Claim # "Muxed"
          /\ claim' = Claim /\ local_eof' = FALSE
          /\ phase' = "starting"
    /\ UNCHANGED <<userVars, state, handle, loops, pipes>>

\* Close ends the listener.  Any other command, and the None of a queue
\* without a sender, is ignored here.
ListenUi ==
    /\ phase = "listening" /\ ui # <<>>
    /\ phase' = IF Head(ui) = "Close" THEN "closed" ELSE phase
    /\ ui' = Tail(ui)
    /\ UNCHANGED <<claim, local_eof, mapped, tunnel, pipes, accepts>>

----------------------------------------------------------------------------
(* connect_and_login and connect_and_login_mux, by the claim. *)

\* The attempt comes to nothing: a probing accept leaves Failed behind.
Fails ==
    /\ phase' = "listening"
    /\ IF claim = "Claimed" THEN SetState("Failed") ELSE UNCHANGED <<state, handle>>

\* Client::start: no connection, a secured one, or one to be confirmed.
ClientStart ==
    /\ phase = "starting"
    /\ \/ Fails
       \/ phase' \in {"login", "confirming"} /\ UNCHANGED <<state, handle>>
    /\ UNCHANGED <<claim, local_eof, userVars, loops, pipes, accepts>>

\* confirm_insecure_connection: anything but a yes or no is skipped.
Confirm ==
    /\ phase = "confirming"
    /\ \/ /\ ui # <<>> /\ Head(ui) = "Continue"
          /\ ui' = Tail(ui) /\ phase' = "login" /\ UNCHANGED <<state, handle>>
       \/ /\ ui # <<>> /\ Head(ui) = "Login"
          /\ ui' = Tail(ui) /\ UNCHANGED <<phase, state, handle>>
       \/ /\ \/ ui # <<>> /\ Head(ui) \in {"Close", "Reject"} /\ ui' = Tail(ui)
             \/ ui = <<>> /\ ~mapped /\ UNCHANGED ui
          /\ phase' = "closed"
          /\ IF claim = "Claimed" THEN SetState("Failed") ELSE UNCHANGED <<state, handle>>
    /\ UNCHANGED <<claim, local_eof, mapped, loops, pipes, accepts>>

\* The login loop's UI arm: Login and Message go to the peer, the rest is
\* ignored.
LoginUi ==
    /\ phase = "login" /\ ui # <<>>
    /\ ui' = Tail(ui)
    /\ UNCHANGED <<phase, claim, local_eof, mapped, tunnel, pipes, accepts>>

\* The accepted connection ends: a raw pipe gives up, a probe goes on.
LocalEof ==
    /\ phase = "login" /\ ~local_eof
    /\ IF claim = "Legacy"
         THEN phase' = "listening" /\ UNCHANGED local_eof
         ELSE local_eof' = TRUE /\ UNCHANGED phase
    /\ UNCHANGED <<claim, userVars, tunnel, pipes, accepts>>

\* Timeout, reset, a refused login.
LoginFails ==
    /\ phase = "login"
    /\ Fails
    /\ UNCHANGED <<claim, local_eof, userVars, loops, pipes, accepts>>

\* PeerInfo arrived; a peer without the feature gets the raw pipe.
LoginSucceeds(mux) ==
    /\ phase = "login"
    /\ IF claim = "Claimed" /\ mux
         THEN phase' = "publishing" /\ UNCHANGED <<state, handle, pipes>>
         ELSE /\ phase' = "listening"
              /\ IF claim = "Claimed" THEN SetState("Legacy") ELSE UNCHANGED <<state, handle>>
              /\ pipes' = IF local_eof THEN pipes ELSE pipes + 1
    /\ UNCHANGED <<claim, local_eof, userVars, loops, accepts>>

\* run_forward returns.
PipeEnds ==
    /\ pipes > 0
    /\ pipes' = pipes - 1
    /\ UNCHANGED <<phase, claim, local_eof, userVars, tunnel, accepts>>

----------------------------------------------------------------------------
(* tunnel_loop *)

LoopBreaksNoLifetime(g) ==
    /\ loops[g] = "running" /\ phase # "closed"
    /\ loops' = [loops EXCEPT ![g] = "broken"]
    /\ UNCHANGED <<phase, claim, local_eof, userVars, state, handle, pipes, accepts>>

\* The stream fails, the peer closes, or the listener has dropped the Tunnel.
LoopBreaks(g) ==
    /\ loops[g] = "running"
    /\ loops' = [loops EXCEPT ![g] = "broken"]
    /\ UNCHANGED <<phase, claim, local_eof, userVars, state, handle, pipes, accepts>>

CloseAllAfterReset(g) ==
    /\ loops[g] = "broken"
    /\ SetState("Unset")
    /\ loops' = [loops EXCEPT ![g] = "cleared"]
    /\ UNCHANGED <<phase, claim, local_eof, userVars, pipes, accepts>>

CloseAll(g) ==
    /\ loops[g] = "broken"
    /\ loops' = [loops EXCEPT ![g] = "cleared"]
    /\ UNCHANGED <<phase, claim, local_eof, userVars, state, handle, pipes, accepts>>

ResetStateUnstored(g) ==
    /\ loops[g] = "cleared"
    /\ loops' = [loops EXCEPT ![g] = "returned"]
    /\ UNCHANGED <<phase, claim, local_eof, userVars, state, handle, pipes, accepts>>

ResetState(g) ==
    /\ loops[g] = "cleared"
    /\ SetState("Unset")
    /\ loops' = [loops EXCEPT ![g] = "returned"]
    /\ UNCHANGED <<phase, claim, local_eof, userVars, pipes, accepts>>

Login == LocalEof \/ LoginFails \/ \E mux \in BOOLEAN : LoginSucceeds(mux)
TunnelLoop(g) == LoopBreaks(g) \/ CloseAll(g) \/ ResetState(g)

Next ==
    \/ \E c \in {"Login", "Continue", "Reject"} : Command(c)
    \/ RemovePortForward
    \/ Accept \/ ListenUi \/ ClientStart \/ Confirm \/ LoginUi \/ Login
    \/ SetMuxed \/ SpawnLoop \/ PipeEnds
    \/ \E g \in Gens : TunnelLoop(g)

Spec == Init /\ [][Next]_vars

\* Ready tasks are polled and select! is fair to its arms, a connection attempt
\* ends, a login ends (READ_TIMEOUT, or the peer's own deadline), and a loop
\* whose listener has dropped the Tunnel sees that.  Nobody has to connect and
\* the user has to do nothing.
Fairness ==
    /\ WF_vars(ListenUi) /\ WF_vars(ClientStart) /\ WF_vars(Confirm) /\ WF_vars(LoginUi)
    /\ WF_vars(Login) /\ WF_vars(SetMuxed) /\ WF_vars(SpawnLoop)
    /\ \A g \in Gens : /\ WF_vars(phase = "closed" /\ LoopBreaks(g))
                       /\ WF_vars(CloseAll(g)) /\ WF_vars(ResetState(g))

FairSpec == Spec /\ Fairness

----------------------------------------------------------------------------
(* Properties *)

\* Where the accept loop, the Tunnel and its loops can be; one claim at a time.
TypeOK ==
    /\ phase \in {"listening", "starting", "confirming", "login", "publishing", "spawning",
                  "closed"}
    /\ claim \in {"none", "Claimed", "Legacy"} /\ local_eof \in BOOLEAN
    /\ ui \in Seq({"Login", "Continue", "Reject", "Close"}) /\ mapped \in BOOLEAN
    /\ state \in {"Unset", "Legacy", "Failed", "Muxed"} /\ handle \in Gens \cup {NoGen}
    /\ loops \in [Gens -> {"none", "running", "broken", "cleared", "returned"}]
    /\ pipes \in Nat /\ accepts \in 0 .. MaxAccepts

Alive(g) == loops[g] \in {"running", "broken", "cleared"}

\* A Muxed state never outlives the loop that would reset it: the listener is
\* not pinned to a dead handle ("publish before spawning").
MuxedIsServed ==
    state = "Muxed" => Alive(handle) \/ (phase = "spawning" /\ handle = NextGen)

\* There is one tunnel at a time and the state names it: a second probe starts
\* only after the first tunnel's loop has reset the state.
OneTunnel == \A g \in Gens : Alive(g) => state = "Muxed" /\ handle = g

\* Raw pipes and a tunnel never serve the same mapping at once ("nothing
\* switches modes underneath live connections").
OneMode == pipes > 0 => \A g \in Gens : ~Alive(g)

\* A peer found without the feature is not probed again: no late reset by an
\* earlier tunnel's loop, and no failure, takes Legacy back.
LegacyStays == [][state = "Legacy" => state' = "Legacy"]_vars

\* A tunnel that broke makes room: the state is reset and the next accept may
\* establish again, or the listener has closed.
BrokenIsReset == \A g \in Gens : loops[g] = "broken" ~> state # "Muxed" \/ handle # g

\* Closing the listener ends whatever tunnel it had.
ListenerEndsTunnel == phase = "closed" ~> \A g \in Gens : ~Alive(g)

\* Removing a mapping closes its listener, so that it can be added again
\* ("Re-adding the mapping is how a user picks up an upgraded peer").
RemovalCloses == ~mapped ~> phase = "closed"
=============================================================================
