------------------------------ MODULE Presence ------------------------------
(***************************************************************************)
(* The live sockets of one account over all the workers, and what Redis    *)
(* says of them: the account's bit in ws:online_uins (online), its         *)
(* expiring set of device ids (devs), and the ws:fanout channel every      *)
(* worker listens to.  A socket is a task of the worker that accepted it   *)
(* and runs ws_endpoint one await at a time.                               *)
(***************************************************************************)
EXTENDS Naturals, FiniteSets, Sequences, SequencesExt

CONSTANTS Workers, Devices, Sockets, Dials, Kicks, MaxSockets, Faults, NoOne, All

ASSUME SocketAssumption ==
  /\ Sockets \subseteq Nat /\ MaxSockets \in Nat \ {0} /\ {NoOne, All} \cap (Workers \cup Devices) = {}
  /\ Dials \in [Sockets -> SUBSET (Workers \X Devices)]
  /\ Kicks \subseteq (Workers \X Devices) \cup {All}

VARIABLES
  step,     \* where the task of a socket stands in ws_endpoint
  at, dev,  \* its worker and its device id
  held,     \* held[w]: w's _conns, in the order of _opened_at
  devs,     \* the account's device set in Redis; the key exists iff it is nonempty
  online,   \* the account is a member of ws:online_uins
  chan,     \* chan[w]: envelopes published and not yet read by w
  lost,     \* an envelope was dropped by a dead subscription or never sent
  sweep,    \* presence_sweep has found a ghost and is about to remove it
  faults    \* faults and kicks left

socks == <<step, at, dev, held>>
redis == <<devs, online>>
wire  == <<chan, lost>>
other == <<sweep, faults>>
vars  == <<socks, redis, wire, other>>

Init ==
  /\ step = [s \in Sockets |-> "none"]
  /\ at = [s \in Sockets |-> CHOOSE w \in Workers : TRUE]
  /\ dev = [s \in Sockets |-> CHOOSE d \in Devices : TRUE]
  /\ held = [w \in Workers |-> <<>>]
  /\ devs = {} /\ online = FALSE
  /\ chan = [w \in Workers |-> <<>>] /\ lost = FALSE
  /\ sweep = FALSE /\ faults = Faults

\* redis.publish: every worker's subscription gets the envelope.  A supersede carries the pid of
\* its worker, which skips it on reading; it is not put on that worker's channel in the first place.
Publish(e, from) ==
  chan' = [w \in Workers |-> IF w = from THEN chan[w] ELSE Append(chan[w], e)] /\ UNCHANGED lost

Go(s, p) == step' = [step EXCEPT ![s] = p] /\ UNCHANGED <<at, dev>>
Fault == faults > 0 /\ faults' = faults - 1 /\ UNCHANGED sweep
Others(w, d) == SelectSeq(held[w], LAMBDA s : dev[s] # d)

-----------------------------------------------------------------------------
\* connect under its lock: this worker's sockets of the same device are unregistered, the new
\* one is entered, and the oldest go while there are more than MaxSockets.
Enter(w, s, d) ==
  LET all == Append(Others(w, d), s)
  IN  IF Len(all) > MaxSockets THEN SubSeq(all, Len(all) - MaxSockets + 1, Len(all)) ELSE all
\* ws_endpoint up to there: the token is good and the dial rate is not exceeded.
Dial(s, w, d) ==
  /\ <<w, d>> \in Dials[s] /\ step[s] = "none" /\ \A t \in Sockets : t < s => step[t] # "none"
  /\ step' = [step EXCEPT ![s] = "reg"] /\ at' = [at EXCEPT ![s] = w] /\ dev' = [dev EXCEPT ![s] = d]
  /\ held' = [held EXCEPT ![w] = Enter(w, s, d)]
  /\ UNCHANGED <<redis, wire, other>>

\* connect in Redis: the device first, then the account, then the supersede for the peers.
ConnectDevs(s) ==
  /\ step[s] = "reg" /\ Go(s, "mark") /\ devs' = devs \cup {dev[s]}
  /\ UNCHANGED <<held, online, wire, other>>
ConnectOnline(s) ==
  /\ step[s] = "mark" /\ Go(s, "publish") /\ online' = TRUE
  /\ UNCHANGED <<held, devs, wire, other>>
ConnectUnpublished(s) ==
  /\ step[s] = "publish" /\ Go(s, "serving") /\ UNCHANGED <<held, redis, wire, other>>
ConnectPublish(s) ==
  /\ step[s] = "publish" /\ Go(s, "serving")
  /\ Publish(dev[s], at[s])
  /\ UNCHANGED <<held, redis, other>>
\* Redis does not answer: the socket is served without its marks.
ConnectBlip(s) ==
  /\ step[s] \in {"reg", "mark", "publish"} /\ Go(s, "serving") /\ Fault /\ lost' = TRUE
  /\ UNCHANGED <<held, redis, chan>>

-----------------------------------------------------------------------------
\* touch_device on a client frame.  Its three commands are one step: no other step writes both
\* keys.  A frame that had to put the account back bounces the socket, unless its device was
\* bounced inside the window (_may_bounce, whose clock is left open).
TouchDevOnly(s) == devs' = devs \cup {dev[s]} /\ UNCHANGED online
TouchDevice(s) == devs' = devs \cup {dev[s]} /\ online' = TRUE
Bounce(s) == ~online /\ Go(s, "bye")
Frame(s) ==
  /\ step[s] = "serving" /\ TouchDevice(s) /\ (Bounce(s) \/ UNCHANGED <<step, at, dev>>)
  /\ UNCHANGED <<held, wire, other>>

\* The client goes away without a word.
Vanish(s) ==
  /\ step[s] = "serving" /\ Go(s, "parked")
  /\ UNCHANGED <<held, redis, wire, other>>
\* The receive loop ends: the client is gone, or the socket was unregistered and closed.
Hangup(s) ==
  /\ step[s] = "parked" \/ (step[s] = "serving" /\ s \notin ToSet(held[at[s]]))
  /\ Go(s, "bye")
  /\ UNCHANGED <<held, redis, wire, other>>

\* disconnect under its lock: what is left of the worker's sockets decides the rest.
Disconnect(s) ==
  LET w    == at[s]
      left == SelectSeq(held[w], LAMBDA t : t # s)
      drop == s \in ToSet(held[w]) /\ \A t \in ToSet(left) : dev[t] # dev[s]
  IN  /\ step[s] = "bye" /\ held' = [held EXCEPT ![w] = left]
      /\ Go(s, CASE drop /\ left # <<>> -> "device" [] drop /\ left = <<>> -> "last"
                 [] ~drop /\ left # <<>> -> "gone"  [] ~drop /\ left = <<>> -> "account")
      /\ UNCHANGED <<redis, wire, other>>
\* disconnect in Redis: the device leaves its set; the account leaves when no device is left.
DisconnectDevice(s) ==
  /\ step[s] \in {"device", "last"} /\ devs' = devs \ {dev[s]}
  /\ Go(s, IF step[s] = "last" THEN "account" ELSE "gone")
  /\ UNCHANGED <<held, online, wire, other>>
DisconnectCheck(s) ==
  /\ step[s] = "account" /\ Go(s, IF devs = {} THEN "remove" ELSE "gone")
  /\ UNCHANGED <<held, redis, wire, other>>
DisconnectRemove(s) ==
  /\ step[s] = "remove" /\ Go(s, "gone") /\ online' = FALSE
  /\ UNCHANGED <<held, devs, wire, other>>
\* Redis does not answer: that part of the clean-up is skipped.
DisconnectBlip(s) ==
  /\ step[s] \in {"device", "last", "account", "remove"} /\ Fault
  /\ Go(s, IF step[s] = "last" THEN "account" ELSE "gone")
  /\ UNCHANGED <<held, redis, wire>>

-----------------------------------------------------------------------------
\* _pubsub_loop of w takes one envelope and closes the sockets w holds for that device, or all.
Closes(w, d) == IF d = All THEN <<>> ELSE Others(w, d)
ReadEnvelope(w) ==
  /\ chan[w] # <<>> /\ chan' = [chan EXCEPT ![w] = Tail(@)]
  /\ held' = [held EXCEPT ![w] = Closes(w, Head(chan[w]))]
  /\ UNCHANGED <<step, at, dev, redis, lost, other>>
\* A subscription dies and _pubsub_watchdog, hearing no heartbeat, makes a new one: what was
\* published meanwhile is lost to this worker.
Resubscribe(w) ==
  /\ chan[w] # <<>> /\ Fault
  /\ chan' = [chan EXCEPT ![w] = <<>>] /\ lost' = TRUE
  /\ UNCHANGED <<socks, redis>>

\* kick_device closes its own worker's sockets of the device, takes the device out of the set and
\* tells the others; kick_uin deletes the set and leaves every close to the channel.  One step
\* each: a socket entered between the close and the publish is closed by the envelope.
KickDevice(w, d) ==
  /\ <<w, d>> \in Kicks /\ Fault /\ Publish(d, NoOne)
  /\ held' = [held EXCEPT ![w] = Others(w, d)] /\ devs' = devs \ {d}
  /\ UNCHANGED <<step, at, dev, online>>
KickUin ==
  /\ All \in Kicks /\ Fault /\ Publish(All, NoOne) /\ devs' = {}
  /\ UNCHANGED <<socks, online>>

-----------------------------------------------------------------------------
\* The device set outlives its 180 seconds: nobody sent a frame, be it that nobody is there or
\* that the phone dozes with its socket parked.
Expire ==
  /\ devs # {} /\ devs' = {}
  /\ UNCHANGED <<socks, online, wire, other>>
Quiet == \A s \in Sockets : step[s] \in {"none", "bye", "device", "last", "account", "remove", "gone"}
\* sweep_once: a member with no device set is a ghost; it is removed a few awaits later.
SweepFindListed ==
  /\ ~sweep /\ online /\ devs # {} /\ sweep' = TRUE
  /\ UNCHANGED <<socks, redis, wire, faults>>
SweepFind ==
  /\ ~sweep /\ online /\ devs = {} /\ sweep' = TRUE
  /\ UNCHANGED <<socks, redis, wire, faults>>
SweepRemove ==
  /\ sweep /\ sweep' = FALSE /\ online' = FALSE
  /\ UNCHANGED <<socks, devs, wire, faults>>

\* A worker dies: its tasks, its _conns and its subscription go, Redis keeps what it wrote.
Crash(w) ==
  /\ faults > 0 /\ faults' = faults - 1
  /\ step' = [s \in Sockets |-> IF step[s] # "none" /\ at[s] = w THEN "gone" ELSE step[s]]
  /\ held' = [held EXCEPT ![w] = <<>>] /\ chan' = [chan EXCEPT ![w] = <<>>]
  /\ UNCHANGED <<at, dev, redis, lost, sweep>>

Task(s) ==
  \/ ConnectDevs(s) \/ ConnectOnline(s) \/ ConnectPublish(s) \/ Hangup(s)
  \/ Disconnect(s) \/ DisconnectDevice(s) \/ DisconnectCheck(s) \/ DisconnectRemove(s)

Next ==
  \/ \E s \in Sockets, w \in Workers, d \in Devices : Dial(s, w, d)
  \/ \E s \in Sockets : Task(s) \/ ConnectBlip(s) \/ DisconnectBlip(s) \/ Frame(s) \/ Vanish(s)
  \/ \E w \in Workers : ReadEnvelope(w) \/ Resubscribe(w) \/ Crash(w)
  \/ \E w \in Workers, d \in Devices : KickDevice(w, d)
  \/ KickUin \/ Expire \/ SweepFind \/ SweepRemove

\* The tasks, the loops and the sweep keep running; an attached client pings; the device set of
\* an account nobody is connected to runs out.
Fairness ==
  /\ \A s \in Sockets : WF_vars(Task(s)) /\ WF_vars(Frame(s))
  /\ \A w \in Workers : WF_vars(ReadEnvelope(w))
  /\ WF_vars(Quiet /\ Expire) /\ WF_vars(SweepFind) /\ WF_vars(SweepRemove)

Spec == Init /\ [][Next]_vars /\ Fairness

-----------------------------------------------------------------------------
IsHeld(s) == \E w \in Workers : s \in ToSet(held[w])
AllGone == \A s \in Sockets : step[s] \in {"none", "gone"}

\* Whatever teardown, expiry, sweep or Redis blip took an account out of the online set, a socket
\* whose client keeps sending frames is listed again, with its device (touch_device).
LiveSeen ==
  \A s \in Sockets : step[s] = "serving" ~> ((online /\ dev[s] \in devs) \/ step[s] # "serving")

\* An account with no socket left anywhere does not stay in the online set, even when the worker
\* that held its last socket died without the SREM: the expiry and presence_sweep remove it.
GhostsGo == AllGone ~> (~online \/ ~AllGone)

TwoOfADevice == \E s, t \in Sockets : s # t /\ dev[s] = dev[t] /\ IsHeld(s) /\ IsHeld(t)

\* Two sockets of one device on two workers do not both stay registered: each connect's supersede
\* reaches the other worker, unless the envelope was lost to a dead subscription.
OneSurvivor == TwoOfADevice ~> (~TwoOfADevice \/ lost)
=============================================================================
