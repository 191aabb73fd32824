----------------------------- MODULE ReportProofs ------------------------------
(***************************************************************************)
(* Proofs about a session, for any number of launchers and leaks: where a  *)
(* connection is, from the port that a dump has read to the launcher that  *)
(* takes it or loses it; what its report is, from line to line; and that   *)
(* the session keeps the promise of ReportDelivery.                        *)
(***************************************************************************)
EXTENDS ReportSession, SequenceFacts, TLAPS

(***************************************************************************)
(* The inductive invariant: connections.                                   *)
(***************************************************************************)
Mains   == {"idle", "waiting", "loading", "done", "failed", "killed"}
Servers == {"none", "new", "noSocket", "accepting", "accepted", "timedOut", "reading",
            "failed", "ended", "killed"}
Early   == {"none", "testAndSet", "refused", "gc", "connect"}
Late    == {"begin", "open", "search", "leak", "print_fn", "elements", "references",
            "closeLeak", "close", "finish", "done"}

Types ==
  /\ main \in [Launchers -> Mains] /\ server \in [Launchers -> Servers]
  /\ peer \in [Launchers -> Launchers \cup {None}]
  /\ backlog \in [Launchers -> Seq(Launchers)]
  /\ attaching \in Launchers \cup {None} /\ tcp_port \in Launchers \cup {None}
  /\ dumper \in [Launchers -> Early \cup Late]
  /\ conn \in [Launchers -> {"none", "failed", "open", "closed", "reset"}]
  /\ to \in [Launchers -> Launchers \cup {None}]

(* Each launcher starts its server once, and attaches once.                 *)
StartsOnce ==
  \A l \in Launchers :
    /\ main[l] = "idle" => server[l] = "none"
    /\ main[l] \in {"idle", "waiting"} \/ attaching = l => dumper[l] = "none"

(* A dump connects once, to a port.                                         *)
ConnectsOnce ==
  \A d \in Launchers : /\ dumper[d] \in Early => conn[d] = "none"
                       /\ conn[d] \in {"open", "closed", "reset"} => to[d] \in Launchers

Distinct(s) == \A i, j \in DOMAIN s : s[i] = s[j] => i = j

(* What is queued was sent to that launcher, which can still accept it, and *)
(* is in the queue once.                                                    *)
Queued(l, d) == to[d] = l /\ Listens(l) /\ conn[d] \in {"open", "closed"} /\ peer[l] # d
Queues == \A l \in Launchers : /\ Distinct(backlog[l])
                               /\ \A d \in InBacklog(l) : Queued(l, d)

(* A launcher that has accepted a connection listens no more for others.    *)
Peers ==
  \A l \in Launchers :
    /\ server[l] \in {"accepted", "reading"} => peer[l] # None
    /\ peer[l] # None => /\ to[peer[l]] = l /\ conn[peer[l]] # "none"
                         /\ server[l] \in {"accepted", "reading", "ended", "killed"}

NetInv == Types /\ StartsOnce /\ ConnectsOnce /\ Queues /\ Peers /\ LostReportIsNoticed
-----------------------------------------------------------------------------
(* The head of a queue is taken off.                                        *)
LEMMA TailFacts ==
  ASSUME NEW S, NEW s \in Seq(S), s # <<>>, Distinct(s)
  PROVE  /\ Head(s) \in S /\ Tail(s) \in Seq(S) /\ Distinct(Tail(s))
         /\ 1 \in DOMAIN s /\ Head(s) = s[1]
         /\ \A i \in DOMAIN Tail(s) : i + 1 \in DOMAIN s /\ Tail(s)[i] = s[i + 1]
                                      /\ Tail(s)[i] # Head(s)
<1>1. /\ Len(s) \in Nat \ {0} /\ DOMAIN s = 1 .. Len(s)
      /\ \A i \in 1 .. Len(s) : s[i] \in S
  BY EmptySeq, LenProperties
<1>2. /\ Head(s) = s[1] /\ Tail(s) \in Seq(S) /\ Len(Tail(s)) = Len(s) - 1
      /\ \A i \in 1 .. Len(Tail(s)) : Tail(s)[i] = s[i + 1]
  BY HeadTailProperties
<1>3. DOMAIN Tail(s) = 1 .. Len(s) - 1
  BY <1>2, LenProperties
<1>4. \A i \in DOMAIN Tail(s) : i \in Int /\ i + 1 \in DOMAIN s /\ i + 1 # 1 /\ Tail(s)[i] = s[i + 1]
  BY <1>1, <1>2, <1>3
<1>5. Distinct(Tail(s))
  <2>1. \A i, j \in DOMAIN Tail(s) : i + 1 = j + 1 => i = j
    BY <1>4
  <2>. QED BY <1>4, <2>1 DEF Distinct
<1>6. 1 \in DOMAIN s /\ s[1] \in S
  BY <1>1
<1>7. \A i \in DOMAIN Tail(s) : Tail(s)[i] # Head(s)
  BY <1>2, <1>4, <1>6 DEF Distinct
<1>. QED BY <1>2, <1>4, <1>5, <1>6, <1>7

(* A connection is queued.                                                  *)
LEMMA AppendFacts ==
  ASSUME NEW S, NEW s \in Seq(S), NEW x \in S, Distinct(s), \A i \in DOMAIN s : s[i] # x
  PROVE  /\ Append(s, x) \in Seq(S) /\ Distinct(Append(s, x))
         /\ \A i \in DOMAIN Append(s, x) :
              Append(s, x)[i] = x \/ (i \in DOMAIN s /\ Append(s, x)[i] = s[i])
<1>1. /\ Append(s, x) \in Seq(S) /\ Len(Append(s, x)) = Len(s) + 1
      /\ \A i \in 1 .. Len(s) : Append(s, x)[i] = s[i]
      /\ Append(s, x)[Len(s) + 1] = x
  BY AppendProperties
<1>2. Len(s) \in Nat /\ DOMAIN s = 1 .. Len(s)
  BY LenProperties
<1>3. DOMAIN Append(s, x) = 1 .. Len(s) + 1
  BY <1>1, LenProperties
<1>4. \A i \in DOMAIN Append(s, x) : i \in DOMAIN s \/ (i = Len(s) + 1 /\ i \notin DOMAIN s)
  BY <1>2, <1>3
<1>5. \A i \in DOMAIN Append(s, x) : \/ i \in DOMAIN s /\ Append(s, x)[i] = s[i]
                                     \/ i = Len(s) + 1 /\ Append(s, x)[i] = x
  BY <1>1, <1>2, <1>4
<1>6. Distinct(Append(s, x))
  BY <1>5 DEF Distinct
<1>. QED BY <1>1, <1>5, <1>6

LEMMA NetInit == Init => NetInv
<1>. SUFFICES ASSUME Init PROVE NetInv
  OBVIOUS
<1>1. << >> \in Seq(Launchers) /\ DOMAIN << >> = {}
  BY EmptySeq, LenProperties
<1>2. \A l \in Launchers : /\ backlog[l] = << >> /\ peer[l] = None /\ server[l] = "none"
                           /\ dumper[l] = "none" /\ conn[l] = "none"
  BY DEF Init
<1>3. Types
  BY <1>1 DEF Init, Types, Mains, Servers, Early
<1>4. StartsOnce /\ ConnectsOnce /\ Peers /\ LostReportIsNoticed
  BY <1>2 DEF StartsOnce, ConnectsOnce, Peers, LostReportIsNoticed, Init
<1>5. Queues
  BY <1>1, <1>2 DEF Queues, Distinct, InBacklog
<1>. QED BY <1>3, <1>4, <1>5 DEF NetInv

(* A dumper goes on without touching a connection.                          *)
LEMMA DumperGoesOn ==
  ASSUME NetInv, NEW d \in Launchers, NEW pc \in Early \cup Late,
         dumper[d] # "none", pc \in Early => dumper[d] \in Early,
         dumper' = [dumper EXCEPT ![d] = pc],
         UNCHANGED <<main, server, peer, backlog, attaching, tcp_port, conn, to>>
  PROVE  NetInv'
<1>1. Types' /\ \A l \in Launchers : dumper'[l] = IF l = d THEN pc ELSE dumper[l]
  BY DEF NetInv, Types
<1>2. StartsOnce' /\ ConnectsOnce'
  BY <1>1 DEF NetInv, StartsOnce, ConnectsOnce
<1>3. Queues' /\ Peers' /\ LostReportIsNoticed'
  BY DEF NetInv, Queues, Queued, InBacklog, Listens, Peers, LostReportIsNoticed
<1>. QED BY <1>1, <1>2, <1>3 DEF NetInv

(* Open connections are closed by the target.                               *)
LEMMA TargetCloses ==
  ASSUME NetInv, conn' \in [Launchers -> {"none", "failed", "open", "closed", "reset"}],
         \A d \in Launchers : conn'[d] = conn[d] \/ (conn[d] = "open" /\ conn'[d] = "closed"),
         dumper' \in [Launchers -> Early \cup Late],
         \A d \in Launchers : dumper'[d] = dumper[d] \/ {dumper[d], dumper'[d]} \subseteq Late,
         UNCHANGED <<main, server, peer, backlog, attaching, tcp_port, to>>
  PROVE  NetInv'
<1>1. Types' /\ \A d \in Launchers : dumper'[d] \in Early => dumper'[d] = dumper[d]
  BY DEF NetInv, Types, Early, Late
<1>2. StartsOnce' /\ ConnectsOnce'
  <2>1. \A d \in Launchers : dumper[d] \in Late => dumper[d] # "none"
    BY DEF Late
  <2>. QED BY <1>1, <2>1 DEF NetInv, StartsOnce, ConnectsOnce
<1>3. Queues'
  <2>1. \A l \in Launchers : InBacklog(l) \subseteq Launchers
    BY LenProperties DEF NetInv, Types, InBacklog
  <2>2. \A l \in Launchers : InBacklog(l)' = InBacklog(l) /\ backlog'[l] = backlog[l]
    BY DEF InBacklog
  <2>3. \A l, d \in Launchers : Queued(l, d) => Queued(l, d)'
    BY DEF Queued, Listens
  <2>. QED BY <2>1, <2>2, <2>3 DEF NetInv, Queues
<1>4. Peers' /\ LostReportIsNoticed'
  BY DEF NetInv, Types, Peers, LostReportIsNoticed
<1>. QED BY <1>1, <1>2, <1>3, <1>4 DEF NetInv

(* A step of a launcher that touches no connection: main thread and server  *)
(* thread go forward only.                                                  *)
GoesOn(l) ==
  /\ main' \in [Launchers -> Mains] /\ server' \in [Launchers -> Servers]
  /\ \A o \in Launchers \ {l} : main'[o] = main[o] /\ server'[o] = server[o]
  /\ Listens(l) => Listens(l)'
  /\ server[l] \in {"failed", "killed"} => server'[l] = server[l]
  /\ server[l] \in {"accepted", "reading", "ended"} <=>
       server'[l] \in {"accepted", "reading", "ended"}
  /\ server'[l] \in {"accepted", "reading"} => server[l] \in {"accepted", "reading"}
  /\ main'[l] = "idle" => main[l] = "idle" /\ server'[l] = server[l]
  /\ main'[l] = "waiting" => main[l] \in {"idle", "waiting"}
  /\ attaching' \in Launchers \cup {None}
  /\ attaching' = attaching \/ (attaching' = l /\ main[l] = "waiting")
  /\ UNCHANGED <<peer, backlog, tcp_port, dumper, conn, to>>

LEMMA LauncherGoesOn == ASSUME NetInv, NEW l \in Launchers, GoesOn(l) PROVE NetInv'
<1>. USE DEF GoesOn
<1>1. Types'
  BY DEF NetInv, Types
<1>2. StartsOnce' /\ ConnectsOnce'
  BY DEF NetInv, StartsOnce, ConnectsOnce
<1>3. Queues'
  <2>1. \A o \in Launchers : Listens(o) => Listens(o)'
    BY DEF Listens
  <2>2. \A o \in Launchers : InBacklog(o)' = InBacklog(o) /\ backlog'[o] = backlog[o]
    BY DEF InBacklog
  <2>. QED BY <2>1, <2>2 DEF NetInv, Queues, Queued
<1>4. Peers'
  BY DEF NetInv, Types, Peers, Servers
<1>5. LostReportIsNoticed'
  BY DEF NetInv, Types, ConnectsOnce, LostReportIsNoticed
<1>. QED BY <1>1, <1>2, <1>3, <1>4, <1>5 DEF NetInv

(* A connection is accepted.                                                *)
LEMMA AcceptKeeps == ASSUME NetInv, NEW l \in Launchers, Accept(l) PROVE NetInv'
<1>. DEFINE d == Head(backlog[l])
<1>1. /\ d \in Launchers /\ Tail(backlog[l]) \in Seq(Launchers)
      /\ Distinct(Tail(backlog[l])) /\ d \in InBacklog(l)
      /\ \A i \in DOMAIN Tail(backlog[l]) : /\ Tail(backlog[l])[i] \in InBacklog(l)
                                            /\ Tail(backlog[l])[i] # d
  BY TailFacts DEF NetInv, Types, Queues, Accept, InBacklog
<1>2. Queued(l, d) /\ peer[l] = None
  BY <1>1 DEF NetInv, Queues, Peers, Accept
<1>3. /\ server'[l] = "accepted" /\ peer'[l] = d /\ backlog'[l] = Tail(backlog[l])
      /\ \A o \in Launchers \ {l} : /\ server'[o] = server[o] /\ peer'[o] = peer[o]
                                    /\ backlog'[o] = backlog[o]
      /\ UNCHANGED <<main, attaching, tcp_port, dumper, conn, to>>
  BY DEF Accept, serverTo, NetInv, Types, attachVars
<1>4. Types'
  BY <1>1 DEF NetInv, Types, Accept, serverTo, Servers, attachVars
<1>5. StartsOnce' /\ ConnectsOnce'
  BY <1>3 DEF NetInv, StartsOnce, ConnectsOnce, Accept
<1>6. Queues'
  <2>1. ASSUME NEW o \in Launchers, NEW e \in InBacklog(o)' PROVE Queued(o, e)'
    <3>1. e \in InBacklog(o) /\ (o = l => e # d)
      <4>1. \A i \in DOMAIN backlog'[o] :
              backlog'[o][i] \in InBacklog(o) /\ (o = l => backlog'[o][i] # d)
        <5>1. CASE o = l
          BY <1>1, <1>3, <5>1
        <5>2. CASE o # l
          BY <1>3, <5>2 DEF InBacklog
        <5>. QED BY <5>1, <5>2
      <4>2. PICK i \in DOMAIN backlog'[o] : e = backlog'[o][i]
        BY DEF InBacklog
      <4>. QED BY <4>1, <4>2
    <3>2. Queued(o, e)
      BY <3>1 DEF NetInv, Queues
    <3>. QED BY <1>3, <3>1, <3>2 DEF Queued, Listens, Accept
  <2>2. \A o \in Launchers : Distinct(backlog[o])'
    BY <1>1, <1>3 DEF NetInv, Queues, Distinct
  <2>. QED BY <2>1, <2>2 DEF Queues
<1>7. Peers'
  BY <1>1, <1>2, <1>3, ConstantsAssumption DEF NetInv, Peers, Queued
<1>8. LostReportIsNoticed'
  BY <1>2, <1>3 DEF NetInv, LostReportIsNoticed, Queued, ConnectsOnce, Types, Accept
<1>. QED BY <1>4, <1>5, <1>6, <1>7, <1>8 DEF NetInv

(* A listening socket closes, and the connections in lost are reset.        *)
Closes(l, lost) ==
  /\ ResetConnections(l, lost)
  /\ \A d \in InBacklog(l) : d \in lost
  /\ \A d \in lost : /\ d \in Launchers /\ to[d] = l /\ conn[d] # "none"
                     /\ d = peer[l] => server'[l] \in {"failed", "killed"}
  /\ main' \in [Launchers -> Mains] /\ server' \in [Launchers -> Servers]
  /\ \A o \in Launchers \ {l} : main'[o] = main[o] /\ server'[o] = server[o]
  /\ main'[l] = "waiting" => main[l] = "waiting"
  /\ main'[l] # "idle"
  /\ server[l] \in {"failed", "killed"} => server'[l] = server[l]
  /\ server'[l] \in {"failed", "killed"} \/ peer[l] # None \/ lost = {}
  /\ server'[l] \in {"accepted", "reading"} => server[l] \in {"accepted", "reading"}
  /\ server[l] \in {"accepted", "reading", "ended", "killed"} =>
       server'[l] \in {"accepted", "reading", "ended", "killed"}
  /\ UNCHANGED <<peer, attaching, tcp_port, dumper>>

LEMMA SocketCloses == ASSUME NetInv, NEW l \in Launchers, NEW lost, Closes(l, lost) PROVE NetInv'
<1>. USE DEF Closes
<1>1. /\ backlog'[l] = << >> /\ \A o \in Launchers \ {l} : backlog'[o] = backlog[o]
      /\ \A d \in Launchers : conn'[d] = IF d \in lost THEN "reset" ELSE conn[d]
      /\ to' = to /\ << >> \in Seq(Launchers) /\ DOMAIN << >> = {}
  BY EmptySeq, LenProperties DEF ResetConnections, NetInv, Types
<1>2. Types'
  BY <1>1 DEF NetInv, Types, ResetConnections
<1>3. StartsOnce' /\ ConnectsOnce'
  BY <1>1 DEF NetInv, StartsOnce, ConnectsOnce
<1>4. Queues'
  <2>1. ASSUME NEW o \in Launchers, NEW e \in InBacklog(o)' PROVE Queued(o, e)'
    <3>1. o # l /\ e \in InBacklog(o)
      BY <1>1 DEF InBacklog
    <3>2. Queued(o, e) /\ e \in Launchers
      BY <3>1, LenProperties DEF NetInv, Types, Queues, InBacklog
    <3>3. e \notin lost
      BY <3>1, <3>2 DEF Queued
    <3>. QED BY <1>1, <3>1, <3>2, <3>3 DEF Queued, Listens
  <2>2. \A o \in Launchers : Distinct(backlog[o])'
    BY <1>1 DEF NetInv, Queues, Distinct
  <2>. QED BY <2>1, <2>2 DEF Queues
<1>5. Peers'
  BY <1>1 DEF NetInv, Types, Peers
<1>6. LostReportIsNoticed'
  BY <1>1 DEF NetInv, Types, ConnectsOnce, LostReportIsNoticed
<1>. QED BY <1>2, <1>3, <1>4, <1>5, <1>6 DEF NetInv

(* A dump connects, or fails to.                                            *)
LEMMA ConnectKeeps == ASSUME NetInv, NEW d \in Launchers, establish_connection(d) PROVE NetInv'
<1>1. /\ dumper[d] = "connect" /\ conn[d] = "none"
      /\ \A o \in Launchers : dumper'[o] = IF o = d THEN "begin" ELSE dumper[o]
      /\ \A o \in Launchers : to'[o] = IF o = d THEN tcp_port ELSE to[o]
      /\ UNCHANGED <<main, server, peer, attaching, tcp_port>>
  BY DEF establish_connection, dumpTo, dumpVars, launcherVars, attachVars, NetInv, Types,
         ConnectsOnce, Early
<1>2. StartsOnce'
  BY <1>1 DEF NetInv, StartsOnce
<1>3. \A l \in Launchers : \A e \in InBacklog(l) : Queued(l, e) /\ e # d
  BY <1>1 DEF NetInv, Queues, Queued
<1>4. \A l \in Launchers : peer[l] # d
  BY <1>1, ConstantsAssumption DEF NetInv, Peers
<1>5. CASE tcp_port # None /\ Listens(tcp_port)
  <2>1. /\ tcp_port \in Launchers /\ \A o \in Launchers : conn'[o] = IF o = d THEN "open" ELSE conn[o]
        /\ \A l \in Launchers :
             backlog'[l] = IF l = tcp_port THEN Append(backlog[l], d) ELSE backlog[l]
    BY <1>5 DEF establish_connection, NetInv, Types
  <2>2. /\ Append(backlog[tcp_port], d) \in Seq(Launchers)
        /\ Distinct(Append(backlog[tcp_port], d))
        /\ \A i \in DOMAIN Append(backlog[tcp_port], d) :
             \/ Append(backlog[tcp_port], d)[i] = d
             \/ (i \in DOMAIN backlog[tcp_port]
                 /\ Append(backlog[tcp_port], d)[i] = backlog[tcp_port][i])
    <3>1. /\ backlog[tcp_port] \in Seq(Launchers) /\ Distinct(backlog[tcp_port])
          /\ \A i \in DOMAIN backlog[tcp_port] : backlog[tcp_port][i] # d
      <4>1. backlog[tcp_port] \in Seq(Launchers) /\ Distinct(backlog[tcp_port])
        BY <2>1 DEF NetInv, Types, Queues
      <4>2. \A i \in DOMAIN backlog[tcp_port] : backlog[tcp_port][i] \in InBacklog(tcp_port)
        BY DEF InBacklog
      <4>. QED BY <1>3, <2>1, <4>1, <4>2
    <3>. QED BY <3>1, AppendFacts
  <2>3. Types'
    <3>1. backlog' \in [Launchers -> Seq(Launchers)]
      <4>1. \A l \in Launchers : backlog'[l] \in Seq(Launchers)
        BY <2>1, <2>2 DEF NetInv, Types
      <4>2. backlog' = [backlog EXCEPT ![tcp_port] = Append(@, d)]
        BY <1>5 DEF establish_connection
      <4>. QED BY <4>1, <4>2 DEF NetInv, Types
    <3>2. /\ dumper' = [dumper EXCEPT ![d] = "begin"] /\ to' = [to EXCEPT ![d] = tcp_port]
          /\ conn' = [conn EXCEPT ![d] = "open"]
          /\ UNCHANGED <<main, server, peer, attaching, tcp_port>>
      BY <1>5 DEF establish_connection, dumpTo, dumpVars, launcherVars, attachVars
    <3>. QED BY <2>1, <3>1, <3>2 DEF NetInv, Types, Late
  <2>4. ConnectsOnce'
    BY <1>1, <2>1 DEF NetInv, ConnectsOnce, Early
  <2>5. Queues'
    <3>1. ASSUME NEW l \in Launchers, NEW e \in InBacklog(l)' PROVE Queued(l, e)'
      <4>1. e \in InBacklog(l) \/ (l = tcp_port /\ e = d)
        <5>1. PICK i \in DOMAIN backlog'[l] : e = backlog'[l][i]
          BY DEF InBacklog
        <5>2. CASE l = tcp_port
          BY <2>1, <2>2, <5>1, <5>2 DEF InBacklog
        <5>3. CASE l # tcp_port
          BY <2>1, <5>1, <5>3 DEF InBacklog
        <5>. QED BY <5>2, <5>3
      <4>2. CASE e \in InBacklog(l)
        <5>1. e \in Launchers
          BY <4>2, LenProperties DEF InBacklog, NetInv, Types
        <5>. QED BY <1>1, <1>3, <2>1, <4>2, <5>1 DEF Queued, Listens
      <4>3. CASE l = tcp_port /\ e = d
        BY <1>1, <1>4, <1>5, <2>1, <4>3 DEF Queued, Listens
      <4>. QED BY <4>1, <4>2, <4>3
    <3>2. ASSUME NEW l \in Launchers PROVE Distinct(backlog'[l])
      <4>1. CASE l = tcp_port
        BY <2>1, <2>2, <4>1
      <4>2. CASE l # tcp_port
        BY <2>1, <4>2 DEF NetInv, Queues
      <4>. QED BY <4>1, <4>2
    <3>. QED BY <3>1, <3>2 DEF Queues, Distinct
  <2>6. Peers'
    BY <1>1, <1>4, <2>1 DEF NetInv, Types, Peers
  <2>7. LostReportIsNoticed'
    BY <1>1, <2>1 DEF NetInv, LostReportIsNoticed
  <2>. QED BY <1>2, <2>3, <2>4, <2>5, <2>6, <2>7 DEF NetInv
<1>6. CASE ~ (tcp_port # None /\ Listens(tcp_port))
  <2>1. /\ \A o \in Launchers : conn'[o] = IF o = d THEN "failed" ELSE conn[o]
        /\ backlog' = backlog
    BY <1>6 DEF establish_connection, NetInv, Types
  <2>2. Types'
    BY <1>1, <1>6, <2>1
    DEF NetInv, Types, establish_connection, dumpTo, dumpVars, launcherVars, attachVars, Late
  <2>3. ConnectsOnce'
    BY <1>1, <2>1 DEF NetInv, ConnectsOnce, Early
  <2>4. Queues'
    <3>1. ASSUME NEW l \in Launchers, NEW e \in InBacklog(l)' PROVE Queued(l, e)'
      <4>1. e \in InBacklog(l) /\ e \in Launchers
        BY <2>1, LenProperties DEF InBacklog, NetInv, Types
      <4>. QED BY <1>1, <1>3, <2>1, <4>1 DEF Queued, Listens
    <3>2. \A l \in Launchers : Distinct(backlog[l])'
      BY <2>1 DEF NetInv, Queues, Distinct
    <3>. QED BY <3>1, <3>2 DEF Queues
  <2>5. Peers'
    BY <1>1, <1>4, <2>1 DEF NetInv, Types, Peers
  <2>6. LostReportIsNoticed'
    BY <1>1, <2>1 DEF NetInv, LostReportIsNoticed
  <2>. QED BY <1>2, <2>2, <2>3, <2>4, <2>5, <2>6 DEF NetInv
<1>. QED BY <1>5, <1>6

LEMMA NetStep == NetInv /\ [Next]_vars => NetInv'
<1>. SUFFICES ASSUME NetInv, [Next]_vars PROVE NetInv'
  OBVIOUS
<1>. USE DEF serverTo, mainTo, launcherVars, attachVars, netVars
<1>1. ASSUME NEW l \in Launchers,
             Launch(l) \/ Load(l) \/ LoadBreaks(l) \/ StartServer(l) \/ AcceptTimesOut(l)
             \/ EndOfStream(l)
      PROVE  NetInv'
  <2>1. Types /\ StartsOnce
    BY DEF NetInv
  <2>2. CASE Launch(l)
    <3>1. GoesOn(l)
      BY <2>1, <2>2 DEF GoesOn, Launch, Types, StartsOnce, Listens, Mains, Servers
    <3>. QED BY <3>1, LauncherGoesOn
  <2>3. CASE Load(l)
    <3>1. GoesOn(l)
      BY <2>1, <2>3 DEF GoesOn, Load, Types, StartsOnce, Listens, Mains, Servers
    <3>. QED BY <3>1, LauncherGoesOn
  <2>4. CASE LoadBreaks(l)
    <3>1. GoesOn(l)
      BY <2>1, <2>4 DEF GoesOn, LoadBreaks, Types, StartsOnce, Listens, Mains, Servers
    <3>. QED BY <3>1, LauncherGoesOn
  <2>5. CASE StartServer(l)
    <3>1. GoesOn(l)
      BY <2>1, <2>5 DEF GoesOn, StartServer, Types, StartsOnce, Listens, Mains, Servers
    <3>. QED BY <3>1, LauncherGoesOn
  <2>6. CASE AcceptTimesOut(l)
    <3>1. GoesOn(l)
      BY <2>1, <2>6 DEF GoesOn, AcceptTimesOut, Types, StartsOnce, Listens, Mains, Servers
    <3>. QED BY <3>1, LauncherGoesOn
  <2>7. CASE EndOfStream(l)
    <3>1. GoesOn(l)
      BY <2>1, <2>7 DEF GoesOn, EndOfStream, Types, StartsOnce, Listens, Mains, Servers
    <3>. QED BY <3>1, LauncherGoesOn
  <2>. QED BY <1>1, <2>2, <2>3, <2>4, <2>5, <2>6, <2>7
<1>2. ASSUME NEW l \in Launchers, Accept(l) PROVE NetInv'
  BY <1>2, AcceptKeeps
<1>3. ASSUME NEW l \in Launchers, CloseServerSocket(l) \/ GiveUp(l) \/ Kill(l) PROVE NetInv'
  <2>1. Types /\ StartsOnce /\ Peers
    BY DEF NetInv
  <2>2. \A d \in InBacklog(l) : Queued(l, d) /\ d \in Launchers
    BY LenProperties DEF NetInv, Types, Queues, InBacklog
  <2>3. CASE CloseServerSocket(l)
    <3>1. /\ server'[l] = "reading"
          /\ main' \in [Launchers -> Mains] /\ server' \in [Launchers -> Servers]
          /\ \A o \in Launchers \ {l} : main'[o] = main[o] /\ server'[o] = server[o]
          /\ UNCHANGED <<peer, attaching, tcp_port, dumper>>
      BY <2>1, <2>3 DEF CloseServerSocket, Types, Mains, Servers
    <3>2. main'[l] # "idle" /\ (main'[l] = "waiting" => main[l] = "waiting")
      BY <2>1, <2>3 DEF CloseServerSocket, Types, StartsOnce
    <3>3. ResetConnections(l, InBacklog(l))
      BY <2>3 DEF CloseServerSocket
    <3>4. Closes(l, InBacklog(l))
      BY <2>1, <2>2, <2>3, <3>1, <3>2, <3>3, ConstantsAssumption
      DEF Closes, CloseServerSocket, Types, Peers, Queued, Listens
    <3>. QED BY <3>4, SocketCloses
  <2>4. CASE GiveUp(l)
    <3>1. /\ server'[l] = "failed"
          /\ main' \in [Launchers -> Mains] /\ server' \in [Launchers -> Servers]
          /\ \A o \in Launchers \ {l} : main'[o] = main[o] /\ server'[o] = server[o]
          /\ UNCHANGED <<peer, attaching, tcp_port, dumper>>
      BY <2>1, <2>4 DEF GiveUp, Types, Mains, Servers
    <3>2. main'[l] # "idle" /\ (main'[l] = "waiting" => main[l] = "waiting")
      BY <2>1, <2>4 DEF GiveUp, Types, StartsOnce
    <3>3. ResetConnections(l, InBacklog(l))
      BY <2>4 DEF GiveUp
    <3>4. Closes(l, InBacklog(l))
      BY <2>1, <2>2, <2>4, <3>1, <3>2, <3>3, ConstantsAssumption
      DEF Closes, GiveUp, Types, Peers, Queued, Listens
    <3>. QED BY <3>4, SocketCloses
  <2>5. CASE Kill(l)
    <3>1. /\ server'[l] = IF server[l] \in {"noSocket", "failed", "ended"} THEN server[l]
                            ELSE "killed"
          /\ main' \in [Launchers -> Mains] /\ server' \in [Launchers -> Servers]
          /\ \A o \in Launchers \ {l} : main'[o] = main[o] /\ server'[o] = server[o]
          /\ UNCHANGED <<peer, attaching, tcp_port, dumper>>
      BY <2>1, <2>5 DEF Kill, Types, Mains, Servers
    <3>2. main'[l] # "idle" /\ (main'[l] = "waiting" => main[l] = "waiting")
      BY <2>1, <2>5 DEF Kill, Types, StartsOnce
    <3>3. ResetConnections(l, InBacklog(l) \cup
                      (IF server[l] \in {"accepted", "reading"} THEN {peer[l]} ELSE {}))
      BY <2>5 DEF Kill
    <3>4. peer[l] # None => peer[l] \in Launchers
      BY <2>1 DEF Types
    <3>. DEFINE lost == InBacklog(l) \cup
                        (IF server[l] \in {"accepted", "reading"} THEN {peer[l]} ELSE {})
    <3>5. \A d \in lost : /\ d \in Launchers /\ to[d] = l /\ conn[d] # "none"
                          /\ d = peer[l] => server'[l] \in {"failed", "killed"}
      BY <2>1, <2>2, <3>1, <3>4 DEF Peers, Queued
    <3>6. server'[l] \in {"failed", "killed"} \/ lost = {}
      BY <2>1, <2>2, <3>1 DEF Queued, Listens
    <3>7. Closes(l, lost)
      BY <3>1, <3>2, <3>3, <3>5, <3>6 DEF Closes
    <3>. QED BY <3>7, SocketCloses
  <2>. QED BY <1>3, <2>3, <2>4, <2>5
<1>4. ASSUME NEW l \in Launchers, ReadLine(l) PROVE NetInv'
  BY <1>4 DEF ReadLine, NetInv, Types, StartsOnce, ConnectsOnce, Queues, Queued, InBacklog, Listens,
              Peers, LostReportIsNoticed
<1>5. CASE ResetOptions \/ ParseOptions
  BY <1>5 DEF ResetOptions, ParseOptions, NetInv, Types, StartsOnce, ConnectsOnce, Queues, Queued,
              InBacklog, Listens, Peers, LostReportIsNoticed
<1>6. CASE EndAttach
  <2>1. /\ Types' /\ UNCHANGED <<server, peer, backlog, conn, to>>
    BY <1>6 DEF EndAttach, NetInv, Types, Mains, Early
  <2>2. StartsOnce' /\ ConnectsOnce'
    BY <1>6, ConstantsAssumption DEF EndAttach, NetInv, Types, StartsOnce, ConnectsOnce, Early
  <2>3. Queues' /\ Peers' /\ LostReportIsNoticed'
    BY <2>1 DEF NetInv, Queues, Queued, InBacklog, Listens, Peers, LostReportIsNoticed
  <2>. QED BY <2>1, <2>2, <2>3 DEF NetInv
<1>7. ASSUME NEW d \in Launchers, Test(d) \/ RunGC(d) \/ Search(d) \/ Finish(d) PROVE NetInv'
  BY <1>7, DumperGoesOn DEF Test, RunGC, Search, Finish, dumpTo, dumpVars, Early, Late
<1>8. ASSUME NEW d \in Launchers, establish_connection(d) PROVE NetInv'
  BY <1>8, ConnectKeeps
<1>9. ASSUME NEW d \in Launchers,
             BeginReport(d) \/ OpenReport(d) \/ OpenLeak(d) \/ OpenCollection(d) \/ PrintError(d)
             \/ PrintElement(d) \/ CloseCollection(d) \/ PrintReferences(d) \/ CloseLeak(d)
             \/ CloseReport(d)
      PROVE  NetInv'
  <2>1. \E from, next \in Late : Write(d, from, next)
    BY <1>9 DEF BeginReport, OpenReport, OpenLeak, OpenCollection, PrintError, PrintElement,
                CloseCollection, PrintReferences, CloseLeak, CloseReport, Late
  <2>2. PICK from, next \in Late : Write(d, from, next)
    BY <2>1
  <2>3. next \notin Early /\ from # "none"
    BY DEF Early, Late
  <2>. QED BY <2>2, <2>3, DumperGoesOn DEF Write, dumpTo, dumpVars
<1>10. CASE EndTarget
  BY <1>10, TargetCloses DEF EndTarget, dumpVars, NetInv, Types
<1>11. ASSUME NEW d \in Launchers, close_connection(d) PROVE NetInv'
  <2>1. /\ \A o \in Launchers : conn'[o] = conn[o] \/ (conn[o] = "open" /\ conn'[o] = "closed")
        /\ conn' \in [Launchers -> {"none", "failed", "open", "closed", "reset"}]
    BY <1>11 DEF close_connection, NetInv, Types
  <2>2. /\ dumper' \in [Launchers -> Early \cup Late]
        /\ \A o \in Launchers : dumper'[o] = dumper[o] \/ {dumper[o], dumper'[o]} \subseteq Late
    BY <1>11 DEF close_connection, dumpTo, NetInv, Types, Late
  <2>. QED BY <1>11, <2>1, <2>2, TargetCloses DEF close_connection, dumpVars
<1>12. CASE UNCHANGED vars
  BY <1>12 DEF vars, NetInv, Types, StartsOnce, ConnectsOnce, Queues, Queued, InBacklog, Listens,
               Peers, LostReportIsNoticed
<1>. QED
  BY <1>1, <1>2, <1>3, <1>4, <1>5, <1>6, <1>7, <1>8, <1>9, <1>10, <1>11, <1>12
  DEF Next, MainThread, ServerThread, AttachThread, Dumper, PrintLeak, DumpFails, NullStream,
      SearchFails, ChainFails, NullElement, ReferencesFail

(***************************************************************************)
(* A report is lost only where its launcher knows that it has none: the    *)
(* end of accept()'s time, of a launcher, and of the listening socket come *)
(* at any moment of connect() and of the report that is written.           *)
(***************************************************************************)
THEOREM LossIsNoticed == Spec => []LostReportIsNoticed
<1>1. NetInv => LostReportIsNoticed
  BY DEF NetInv
<1>. QED BY NetInit, NetStep, <1>1, PTL DEF Spec
-----------------------------------------------------------------------------
(***************************************************************************)
(* The inductive invariant: turns of launchers that wait for one another.  *)
(***************************************************************************)
Active(l) == main[l] \in {"waiting", "loading"} \/ attaching = l \/ Running(l)

OneTurn == \A l, o \in Launchers : Active(l) /\ Active(o) => l = o

(* The port is that of the launcher whose turn it is, from the end of its   *)
(* options to the connection of its dump.                                   *)
PortIsOwn ==
  /\ step # "none" => attaching # None
  /\ step = "files" => tcp_port = attaching
  /\ \A d \in Launchers : dumper[d] \in {"testAndSet", "gc", "connect"} => tcp_port = d

OwnQueues == \A l \in Launchers : peer[l] \in {None, l} /\ \A d \in InBacklog(l) : d = l

OwnInv == patient => OneTurn /\ PortIsOwn /\ OwnQueues

LEMMA OwnInit == Init => OwnInv
<1>. SUFFICES ASSUME Init PROVE OneTurn /\ PortIsOwn /\ OwnQueues
  BY DEF OwnInv
<1>1. \A l \in Launchers : ~ Active(l)
  BY ConstantsAssumption DEF Init, Active, Running
<1>2. DOMAIN << >> = {}
  BY EmptySeq, LenProperties
<1>. QED BY <1>1, <1>2 DEF Init, OneTurn, PortIsOwn, OwnQueues, InBacklog

(* What is queued or accepted stays where it is, or goes.                   *)
LEMMA QueuesKept ==
  ASSUME NetInv, OwnQueues, [Next]_vars,
         ~ \E d \in Launchers : establish_connection(d)
  PROVE  OwnQueues'
<1>. USE DEF serverTo, mainTo, launcherVars, attachVars, netVars, dumpVars
<1>1. \A l \in Launchers : backlog[l] \in Seq(Launchers) /\ Distinct(backlog[l])
  BY DEF NetInv, Types, Queues
<1>2. ASSUME NEW l \in Launchers, Accept(l) PROVE OwnQueues'
  <2>1. /\ Head(backlog[l]) \in InBacklog(l)
        /\ \A i \in DOMAIN Tail(backlog[l]) : Tail(backlog[l])[i] \in InBacklog(l)
    BY <1>1, <1>2, TailFacts DEF Accept, InBacklog
  <2>2. \A o \in Launchers : peer'[o] \in {peer[o], Head(backlog[l])} /\ (o # l => peer'[o] = peer[o])
    BY <1>2 DEF Accept, NetInv, Types
  <2>3. ASSUME NEW o \in Launchers, NEW e \in InBacklog(o)' PROVE e = o
    <3>1. CASE o = l
      <4>1. backlog'[o] = Tail(backlog[l])
        BY <1>2, <3>1 DEF Accept, NetInv, Types
      <4>. QED BY <2>1, <3>1, <4>1 DEF InBacklog, OwnQueues
    <3>2. CASE o # l
      <4>1. backlog'[o] = backlog[o]
        BY <1>2, <3>2 DEF Accept, NetInv, Types
      <4>. QED BY <4>1 DEF InBacklog, OwnQueues
    <3>. QED BY <3>1, <3>2
  <2>. QED BY <2>1, <2>2, <2>3 DEF OwnQueues
<1>3. ASSUME NEW l \in Launchers, CloseServerSocket(l) \/ GiveUp(l) \/ Kill(l) PROVE OwnQueues'
  <2>1. \A o \in Launchers : /\ peer'[o] = peer[o]
                             /\ backlog'[o] = << >> \/ backlog'[o] = backlog[o]
    BY <1>3 DEF CloseServerSocket, GiveUp, Kill, ResetConnections, NetInv, Types
  <2>2. DOMAIN << >> = {}
    BY EmptySeq, LenProperties
  <2>3. ASSUME NEW o \in Launchers, NEW e \in InBacklog(o)' PROVE e \in InBacklog(o)
    BY <2>1, <2>2 DEF InBacklog
  <2>. QED BY <2>1, <2>3 DEF OwnQueues
<1>4. CASE UNCHANGED <<peer, backlog>>
  BY <1>4 DEF OwnQueues, InBacklog
<1>5. \/ \E l \in Launchers : Accept(l) \/ CloseServerSocket(l) \/ GiveUp(l) \/ Kill(l)
      \/ UNCHANGED <<peer, backlog>>
  BY DEF Next, MainThread, ServerThread, AttachThread, Dumper, PrintLeak, vars, Launch, Load,
         LoadBreaks, StartServer, AcceptTimesOut, ReadLine, EndOfStream, ResetOptions,
         ParseOptions, EndAttach, EndTarget, Test, RunGC, Write, BeginReport, NullStream,
         OpenReport, Search, OpenLeak, OpenCollection, PrintError, PrintElement,
         CloseCollection, PrintReferences, CloseLeak, CloseReport, close_connection, Finish,
         DumpFails, SearchFails, ChainFails, NullElement, ReferencesFail
<1>. QED BY <1>2, <1>3, <1>4, <1>5

(* A dump connects to the port of its own launcher.                         *)
LEMMA ConnectsToItsLauncher ==
  ASSUME NetInv, OwnQueues, PortIsOwn, NEW d \in Launchers, establish_connection(d)
  PROVE  OwnQueues'
<1>1. /\ tcp_port = d /\ UNCHANGED peer
      /\ \A l \in Launchers :
           backlog'[l] = backlog[l] \/ (l = d /\ backlog'[l] = Append(backlog[l], d))
  BY DEF establish_connection, PortIsOwn, dumpVars, launcherVars, NetInv, Types
<1>2. \A l \in Launchers : \A i \in DOMAIN Append(backlog[l], d) :
        Append(backlog[l], d)[i] = d \/ (i \in DOMAIN backlog[l]
                                         /\ Append(backlog[l], d)[i] = backlog[l][i])
  <2>1. ASSUME NEW l \in Launchers
        PROVE  /\ backlog[l] \in Seq(Launchers) /\ Distinct(backlog[l])
               /\ \A i \in DOMAIN backlog[l] : backlog[l][i] # d
    <3>1. conn[d] = "none"
      BY DEF establish_connection, NetInv, ConnectsOnce, Early
    <3>2. \A i \in DOMAIN backlog[l] : conn[backlog[l][i]] # "none"
      BY DEF NetInv, Queues, Queued, InBacklog
    <3>. QED BY <3>1, <3>2 DEF NetInv, Types, Queues
  <2>. QED BY <2>1, AppendFacts
<1>3. ASSUME NEW l \in Launchers, NEW e \in InBacklog(l)' PROVE e = l
  <2>1. e \in InBacklog(l) \/ (l = d /\ e = d)
    <3>1. CASE backlog'[l] = backlog[l]
      BY <3>1 DEF InBacklog
    <3>2. CASE l = d /\ backlog'[l] = Append(backlog[l], d)
      BY <1>2, <3>2 DEF InBacklog
    <3>. QED BY <1>1, <3>1, <3>2
  <2>. QED BY <2>1 DEF OwnQueues
<1>. QED BY <1>1, <1>3 DEF OwnQueues

LEMMA OwnStep == NetInv /\ OwnInv /\ [Next]_vars => OwnInv'
<1>. SUFFICES ASSUME NetInv, OwnInv, [Next]_vars, patient'
              PROVE  OneTurn' /\ PortIsOwn' /\ OwnQueues'
  BY DEF OwnInv
<1>0. patient' = patient
  <2>1. ASSUME NEW l \in Launchers, Launch(l) \/ MainThread(l) \/ ServerThread(l) \/ Kill(l)
        PROVE  patient' = patient
    BY <2>1 DEF MainThread, ServerThread, Launch, Load, LoadBreaks, StartServer, Accept,
                CloseServerSocket, AcceptTimesOut, GiveUp, ReadLine, EndOfStream, Kill
  <2>2. CASE AttachThread
    BY <2>2 DEF AttachThread, ResetOptions, ParseOptions, EndAttach, launcherVars
  <2>3. ASSUME NEW d \in Launchers, Dumper(d) \/ DumpFails(d)
        PROVE  patient' = patient
    <3>1. UNCHANGED dumpVars
      BY <2>3 DEF Dumper, PrintLeak, EndTarget, Test, RunGC, establish_connection, Write,
                  BeginReport, NullStream, OpenReport, Search, OpenLeak, OpenCollection,
                  PrintError, PrintElement, CloseCollection, PrintReferences, CloseLeak,
                  CloseReport, close_connection, Finish, DumpFails, SearchFails, ChainFails,
                  NullElement, ReferencesFail
    <3>. QED BY <3>1 DEF dumpVars, launcherVars
  <2>4. CASE EndTarget
    BY <2>4 DEF EndTarget, dumpVars, launcherVars
  <2>. QED BY <2>1, <2>2, <2>3, <2>4 DEF Next, vars, launcherVars
<1>. USE DEF mainTo, serverTo, launcherVars, attachVars, dumpVars
<1>1. OneTurn /\ PortIsOwn /\ OwnQueues /\ Types /\ StartsOnce
  BY <1>0 DEF OwnInv, NetInv
<1>2. OwnQueues'
  BY <1>1, QueuesKept, ConnectsToItsLauncher
<1>3. ASSUME NEW l \in Launchers, Launch(l) PROVE OneTurn' /\ PortIsOwn'
  <2>1. \A o \in Launchers : ~ Active(o)
    BY <1>0, <1>3, ConstantsAssumption DEF Launch, Active
  <2>2. \A o \in Launchers \ {l} : ~ Active(o)'
    BY <1>1, <1>3, <2>1 DEF Launch, Active, Running, Types
  <2>. QED BY <1>1, <1>3, <2>2 DEF Launch, OneTurn, PortIsOwn
<1>4. ASSUME NEW l \in Launchers, Load(l) PROVE OneTurn' /\ PortIsOwn'
  <2>1. \A o \in Launchers : Active(o)' => Active(o)
    BY <1>1, <1>4 DEF Load, Active, Running, Types
  <2>2. step' = "files" => tcp_port' = attaching'
    BY <1>1, <1>4 DEF Load, PortIsOwn
  <2>. QED BY <1>1, <1>4, <2>1, <2>2, ConstantsAssumption DEF Load, OneTurn, PortIsOwn
<1>5. ASSUME NEW l \in Launchers, LoadBreaks(l) \/ Kill(l) PROVE OneTurn' /\ PortIsOwn'
  <2>1. \A o \in Launchers : Active(o)' => Active(o)
    BY <1>1, <1>5 DEF LoadBreaks, Kill, Active, Running, Types
  <2>. QED BY <1>1, <1>5, <2>1 DEF LoadBreaks, Kill, OneTurn, PortIsOwn
<1>6. CASE ResetOptions \/ ParseOptions
  <2>1. \A o \in Launchers : Active(o)' <=> Active(o)
    BY <1>6 DEF ResetOptions, ParseOptions, Active, Running
  <2>2. attaching \in Launchers /\ dumper[attaching] = "none"
    BY <1>1, <1>6 DEF ResetOptions, ParseOptions, PortIsOwn, StartsOnce, Types
  <2>3. \A d \in Launchers : dumper[d] \notin {"testAndSet", "gc", "connect"}
    BY <1>1, <2>2 DEF OneTurn, Active, Running
  <2>4. OneTurn'
    BY <1>1, <2>1 DEF OneTurn
  <2>5. PortIsOwn'
    BY <1>6, <2>2, <2>3, ConstantsAssumption DEF ResetOptions, ParseOptions, PortIsOwn
  <2>. QED BY <1>2, <2>4, <2>5
<1>7. CASE EndAttach
  <2>1. attaching \in Launchers /\ tcp_port = attaching
    BY <1>1, <1>7 DEF EndAttach, PortIsOwn, Types
  <2>2. \A o \in Launchers : Active(o)' => Active(o)
    BY <1>1, <1>7, <2>1, ConstantsAssumption DEF EndAttach, Active, Running, Types
  <2>3. OneTurn'
    BY <1>1, <2>2 DEF OneTurn
  <2>4. /\ step' = "none" /\ tcp_port' = tcp_port
        /\ \A d \in Launchers : dumper'[d] = dumper[d] \/ d = attaching
    BY <1>1, <1>7 DEF EndAttach, Types
  <2>5. PortIsOwn'
    BY <1>1, <2>1, <2>4 DEF PortIsOwn
  <2>. QED BY <1>2, <2>3, <2>5
<1>8. ASSUME NEW d \in Launchers, NEW pc,
             dumper' = [dumper EXCEPT ![d] = pc], Running(d),
             pc \in {"testAndSet", "gc", "connect"} =>
               dumper[d] \in {"testAndSet", "gc", "connect"},
             UNCHANGED <<main, attaching, step, tcp_port>>
      PROVE  OneTurn' /\ PortIsOwn'
  <2>1. \A o \in Launchers : dumper'[o] = IF o = d THEN pc ELSE dumper[o]
    BY <1>1, <1>8 DEF Types
  <2>2. \A o \in Launchers : Active(o)' => Active(o)
    BY <1>8, <2>1 DEF Active, Running
  <2>. QED BY <1>1, <1>8, <2>1, <2>2 DEF OneTurn, PortIsOwn
<1>9. ASSUME NEW d \in Launchers,
             Test(d) \/ RunGC(d) \/ establish_connection(d) \/ Search(d) \/ close_connection(d)
             \/ Finish(d)
      PROVE  OneTurn' /\ PortIsOwn'
  BY <1>8, <1>9 DEF Test, RunGC, establish_connection, Search, close_connection, Finish, dumpTo,
                    Running
<1>10. ASSUME NEW d \in Launchers,
              BeginReport(d) \/ OpenReport(d) \/ OpenLeak(d) \/ OpenCollection(d) \/ PrintError(d)
              \/ PrintElement(d) \/ CloseCollection(d) \/ PrintReferences(d) \/ CloseLeak(d)
              \/ CloseReport(d)
       PROVE  OneTurn' /\ PortIsOwn'
  <2>1. \E from, next \in Late \ {"finish", "done"} : Write(d, from, next)
    BY <1>10 DEF BeginReport, OpenReport, OpenLeak, OpenCollection, PrintError, PrintElement,
                CloseCollection, PrintReferences, CloseLeak, CloseReport, Late
  <2>2. PICK from, next \in Late \ {"finish", "done"} : Write(d, from, next)
    BY <2>1
  <2>3. Running(d) /\ next \notin {"testAndSet", "gc", "connect"}
    BY <2>2 DEF Write, Running, Late
  <2>4. /\ dumper' = [dumper EXCEPT ![d] = next]
        /\ UNCHANGED <<main, attaching, step, tcp_port>>
    BY <2>2 DEF Write, dumpTo
  <2>. QED BY <1>8, <2>3, <2>4
<1>11. CASE UNCHANGED <<main, attaching, step, tcp_port, dumper>>
  BY <1>1, <1>2, <1>11 DEF OneTurn, PortIsOwn, Active, Running
<1>12. \/ \E l \in Launchers : Launch(l) \/ Load(l) \/ LoadBreaks(l) \/ Kill(l)
       \/ ResetOptions \/ ParseOptions \/ EndAttach
       \/ \E d \in Launchers :
            \/ Test(d) \/ RunGC(d) \/ establish_connection(d) \/ Search(d) \/ close_connection(d)
            \/ Finish(d) \/ BeginReport(d) \/ OpenReport(d) \/ OpenLeak(d) \/ OpenCollection(d)
            \/ PrintError(d) \/ PrintElement(d) \/ CloseCollection(d) \/ PrintReferences(d)
            \/ CloseLeak(d) \/ CloseReport(d)
       \/ UNCHANGED <<main, attaching, step, tcp_port, dumper>>
  <2>1. ASSUME NEW l \in Launchers, ServerThread(l)
        PROVE  UNCHANGED <<main, attaching, step, tcp_port, dumper>>
    BY <2>1 DEF ServerThread, StartServer, Accept, CloseServerSocket, AcceptTimesOut, GiveUp,
                ReadLine, EndOfStream, attachVars
  <2>2. CASE EndTarget
    BY <2>2 DEF EndTarget, dumpVars, launcherVars, attachVars
  <2>3. CASE UNCHANGED vars
    BY <2>3 DEF vars, launcherVars, attachVars
  <2>. QED BY <2>1, <2>2, <2>3 DEF Next, MainThread, AttachThread, Dumper, PrintLeak, DumpFails,
                                   NullStream, SearchFails, ChainFails, NullElement, ReferencesFail
<1>. QED BY <1>2, <1>3, <1>4, <1>5, <1>6, <1>7, <1>9, <1>10, <1>11, <1>12

(***************************************************************************)
(* Launchers that wait for one another get their own reports, however many *)
(* there are, whichever of them fail or are stopped, and although the port *)
(* is a global that is read long after the attach that set it has ended.   *)
(***************************************************************************)
THEOREM ReportsAreOwn == Spec => []OwnReport
<1>1. Init => NetInv /\ OwnInv
  BY NetInit, OwnInit
<1>2. NetInv /\ OwnInv /\ [Next]_vars => (NetInv /\ OwnInv)'
  BY NetStep, OwnStep
<1>3. OwnInv => OwnReport
  BY DEF OwnInv, OwnQueues, OwnReport
<1>. QED BY <1>1, <1>2, <1>3, PTL DEF Spec
-----------------------------------------------------------------------------
(***************************************************************************)
(* What a text means: the elements that are open, the lines of a dump.     *)
(***************************************************************************)
Tags  == {"xml", "memory-leaks", "leaking-object", "collection", "element", "error", "references"}
Names == Tags \cup {"malformed"}

LEMMA NestIsTyped ==
  ASSUME NEW open \in Seq(Names), NEW e \in Element
  PROVE  Nest(open, e) \in Seq(Names)
<1>1. e.tag \in Names /\ << "malformed" >> \in Seq(Names)
  BY DEF Element, Names, Tags
<1>2. Append(open, e.tag) \in Seq(Names)
  BY <1>1, PushFacts
<1>3. open # << >> => SubSeq(open, 1, Len(open) - 1) \in Seq(Names)
  BY PopFacts
<1>4. << "malformed" >> \o open \in Seq(Names)
  BY <1>1, ConcatProperties
<1>. QED BY <1>2, <1>3, <1>4 DEF Nest

NestStep == [open \in Seq(Names) |-> [e \in Element |-> Nest(open, e)]]

LEMMA NestStepTyped == NestStep \in [Seq(Names) -> [Element -> Seq(Names)]]
BY NestIsTyped DEF NestStep

(* The tags that are open are what one gets from element to element.        *)
LEMMA OpenTagsIsFold ==
  ASSUME NEW s \in Seq(Element)
  PROVE  \E f : /\ IsFold(f, Len(s), << >>, NestStep, s)
                /\ f[Len(s)] = OpenTags(s) /\ OpenTags(s) \in Seq(Names)
<1>. DEFINE Rec(f) == f = [i \in 0 .. Len(s) |-> IF i = 0 THEN << >> ELSE Nest(f[i - 1], s[i])]
            f == CHOOSE f : Rec(f)
<1>1. /\ Len(s) \in Nat /\ \A i \in 1 .. Len(s) : s[i] \in Element
      /\ << >> \in Seq(Names)
  BY LenProperties, ElementOfSeq, EmptySeq
<1>2. PICK g \in [0 .. Len(s) -> Seq(Names)] : IsFold(g, Len(s), << >>, NestStep, s)
  BY <1>1, FoldExists, NestStepTyped
<1>3. Rec(g)
  <2>1. \A i \in 0 .. Len(s) : g[i] = IF i = 0 THEN << >> ELSE Nest(g[i - 1], s[i])
    <3>. SUFFICES ASSUME NEW i \in 1 .. Len(s) PROVE g[i] = Nest(g[i - 1], s[i])
      BY <1>2 DEF IsFold
    <3>1. g[i - 1] \in Seq(Names) /\ s[i] \in Element
      BY <1>1
    <3>2. NestStep[g[i - 1]][s[i]] = Nest(g[i - 1], s[i])
      BY <3>1 DEF NestStep
    <3>. QED BY <1>2, <3>2 DEF IsFold
  <2>. QED BY <2>1
<1>4. Rec(f)
  <2>. HIDE DEF Rec
  <2>. QED BY <1>3
<1>5. \A i \in 1 .. Len(s) : f[i - 1] \in Seq(Names) => f[i] = NestStep[f[i - 1]][s[i]]
  <2>. HIDE DEF f
  <2>. SUFFICES ASSUME NEW i \in 1 .. Len(s), f[i - 1] \in Seq(Names)
                PROVE  f[i] = NestStep[f[i - 1]][s[i]]
    OBVIOUS
  <2>1. f[i] = Nest(f[i - 1], s[i])
    BY <1>1, <1>4
  <2>. QED BY <1>1, <2>1 DEF NestStep
<1>6. f[0] = << >>
  <2>. HIDE DEF f
  <2>. QED BY <1>1, <1>4
<1>7. OpenTags(s) = f[Len(s)]
  BY DEF OpenTags
<1>. HIDE DEF f
<1>8. IsFold(f, Len(s), << >>, NestStep, s) /\ f[Len(s)] \in Seq(Names)
  <2>1. LikeFold(f, Len(s), << >>, NestStep, s, Seq(Names))
    BY <1>5, <1>6 DEF LikeFold
  <2>. QED BY <1>1, <2>1, NestStepTyped, RecursionIsFold
<1>. QED BY <1>7, <1>8

LEMMA OpenTagsFacts ==
  ASSUME NEW s \in Seq(Element)
  PROVE  /\ OpenTags(s) \in Seq(Names)
         /\ OpenTags(<< >>) = << >>
         /\ \A e \in Element : OpenTags(Append(s, e)) = Nest(OpenTags(s), e)
<1>1. OpenTags(s) \in Seq(Names)
  BY OpenTagsIsFold
<1>2. OpenTags(<< >>) = << >>
  <2>1. << >> \in Seq(Element) /\ Len(<< >>) = 0
    BY EmptySeq
  <2>. QED BY <2>1, OpenTagsIsFold DEF IsFold
<1>3. ASSUME NEW e \in Element
      PROVE  OpenTags(Append(s, e)) = Nest(OpenTags(s), e)
  <2>1. PICK f : IsFold(f, Len(s), << >>, NestStep, s) /\ f[Len(s)] = OpenTags(s)
    BY OpenTagsIsFold
  <2>. DEFINE t == Append(s, e)
  <2>2. t \in Seq(Element)
    BY PushFacts
  <2>3. PICK g : IsFold(g, Len(t), << >>, NestStep, t) /\ g[Len(t)] = OpenTags(t)
    <3>. HIDE DEF t
    <3>. QED BY <2>2, OpenTagsIsFold
  <2>4. g[Len(t)] = NestStep[f[Len(s)]][e]
    BY <2>1, <2>3, FoldGrows
  <2>5. NestStep[OpenTags(s)][e] = Nest(OpenTags(s), e)
    BY <1>1 DEF NestStep
  <2>. QED BY <2>1, <2>3, <2>4, <2>5
<1>. QED BY <1>1, <1>2, <1>3

LinesStep(d) == [lines \in Seq(Element) |-> [e \in Element |-> WithLine(d, lines, e)]]

LEMMA LinesStepTyped ==
  ASSUME NEW d
  PROVE  LinesStep(d) \in [Seq(Element) -> [Element -> Seq(Element)]]
BY PushFacts DEF LinesStep, WithLine

(* The lines of a dump are what one gets from line to line.                 *)
LEMMA LinesOfIsFold ==
  ASSUME NEW d, NEW s \in Seq(Element)
  PROVE  \E f : /\ IsFold(f, Len(s), << >>, LinesStep(d), s)
                /\ f[Len(s)] = LinesOf(d, s) /\ LinesOf(d, s) \in Seq(Element)
<1>. DEFINE Rec(f) == f = [i \in 0 .. Len(s) |->
                             IF i = 0 THEN << >> ELSE WithLine(d, f[i - 1], s[i])]
            f == CHOOSE f : Rec(f)
<1>1. /\ Len(s) \in Nat /\ \A i \in 1 .. Len(s) : s[i] \in Element
      /\ << >> \in Seq(Element)
  BY LenProperties, ElementOfSeq, EmptySeq
<1>2. PICK g \in [0 .. Len(s) -> Seq(Element)] : IsFold(g, Len(s), << >>, LinesStep(d), s)
  BY <1>1, FoldExists, LinesStepTyped
<1>3. Rec(g)
  <2>1. \A i \in 0 .. Len(s) :
          g[i] = IF i = 0 THEN << >> ELSE WithLine(d, g[i - 1], s[i])
    <3>. SUFFICES ASSUME NEW i \in 1 .. Len(s) PROVE g[i] = WithLine(d, g[i - 1], s[i])
      BY <1>2 DEF IsFold
    <3>1. g[i - 1] \in Seq(Element) /\ s[i] \in Element
      BY <1>1
    <3>2. LinesStep(d)[g[i - 1]][s[i]] = WithLine(d, g[i - 1], s[i])
      BY <3>1 DEF LinesStep
    <3>. QED BY <1>2, <3>2 DEF IsFold
  <2>. QED BY <2>1
<1>4. Rec(f)
  <2>. HIDE DEF Rec
  <2>. QED BY <1>3
<1>5. \A i \in 1 .. Len(s) : f[i - 1] \in Seq(Element) => f[i] = LinesStep(d)[f[i - 1]][s[i]]
  <2>. HIDE DEF f
  <2>. SUFFICES ASSUME NEW i \in 1 .. Len(s), f[i - 1] \in Seq(Element)
                PROVE  f[i] = LinesStep(d)[f[i - 1]][s[i]]
    OBVIOUS
  <2>1. f[i] = WithLine(d, f[i - 1], s[i])
    BY <1>1, <1>4
  <2>. QED BY <1>1, <2>1 DEF LinesStep
<1>6. f[0] = << >>
  <2>. HIDE DEF f
  <2>. QED BY <1>1, <1>4
<1>7. LinesOf(d, s) = f[Len(s)]
  BY DEF LinesOf
<1>. HIDE DEF f
<1>8. IsFold(f, Len(s), << >>, LinesStep(d), s) /\ f[Len(s)] \in Seq(Element)
  <2>1. LikeFold(f, Len(s), << >>, LinesStep(d), s, Seq(Element))
    BY <1>5, <1>6 DEF LikeFold
  <2>. QED BY <1>1, <2>1, LinesStepTyped, RecursionIsFold
<1>. QED BY <1>7, <1>8

LEMMA LinesOfFacts ==
  ASSUME NEW d, NEW s \in Seq(Element)
  PROVE  /\ LinesOf(d, s) \in Seq(Element)
         /\ LinesOf(d, << >>) = << >>
         /\ \A e \in Element : LinesOf(d, Append(s, e)) = WithLine(d, LinesOf(d, s), e)
<1>1. LinesOf(d, s) \in Seq(Element)
  BY LinesOfIsFold
<1>2. LinesOf(d, << >>) = << >>
  <2>1. << >> \in Seq(Element) /\ Len(<< >>) = 0
    BY EmptySeq
  <2>2. PICK f : /\ IsFold(f, Len(<< >>), << >>, LinesStep(d), << >>)
                 /\ f[Len(<< >>)] = LinesOf(d, << >>)
    BY <2>1, LinesOfIsFold
  <2>. QED BY <2>1, <2>2 DEF IsFold
<1>3. ASSUME NEW e \in Element
      PROVE  LinesOf(d, Append(s, e)) = WithLine(d, LinesOf(d, s), e)
  <2>1. PICK f : IsFold(f, Len(s), << >>, LinesStep(d), s) /\ f[Len(s)] = LinesOf(d, s)
    BY LinesOfIsFold
  <2>. DEFINE t == Append(s, e)
  <2>2. t \in Seq(Element)
    BY PushFacts
  <2>3. PICK g : IsFold(g, Len(t), << >>, LinesStep(d), t) /\ g[Len(t)] = LinesOf(d, t)
    <3>. HIDE DEF t
    <3>. QED BY <2>2, LinesOfIsFold
  <2>4. g[Len(t)] = LinesStep(d)[f[Len(s)]][e]
    BY <2>1, <2>3, FoldGrows
  <2>5. LinesStep(d)[LinesOf(d, s)][e] = WithLine(d, LinesOf(d, s), e)
    BY <1>1 DEF LinesStep
  <2>. QED BY <2>1, <2>3, <2>4, <2>5
<1>. QED BY <1>1, <1>2, <1>3

(* A mark that is made stays, so what comes before a well nested text is.   *)
Malformed(open) == \E i \in DOMAIN open : open[i] = "malformed"

LEMMA MarksStay ==
  ASSUME NEW open \in Seq(Names), Malformed(open), NEW e \in Element
  PROVE  Malformed(Nest(open, e))
<1>1. /\ Len(open) \in Nat /\ DOMAIN open = 1 .. Len(open) /\ e.tag # "malformed"
      /\ e.tag \in Names /\ << "malformed" >> \in Seq(Names)
  BY LenProperties DEF Element, Names, Tags
<1>2. PICK i \in 1 .. Len(open) : open[i] = "malformed"
  BY <1>1 DEF Malformed
<1>3. CASE e.kind = "open"
  <2>1. /\ Append(open, e.tag)[i] = "malformed" /\ i \in 1 .. Len(Append(open, e.tag))
        /\ Append(open, e.tag) \in Seq(Names)
    BY <1>1, <1>2, PushFacts
  <2>2. i \in DOMAIN Append(open, e.tag)
    BY <2>1, LenProperties
  <2>. QED BY <1>3, <2>1, <2>2 DEF Nest, Malformed
<1>4. CASE e.kind = "close" /\ open # << >> /\ open[Len(open)] = e.tag
  <2>1. i # Len(open)
    <3>1. ASSUME i = Len(open) PROVE FALSE
      <4>1. open[Len(open)] = "malformed"
        BY <1>2, <3>1
      <4>. QED BY <1>1, <1>4, <4>1
    <3>. QED BY <3>1
  <2>. DEFINE rest == SubSeq(open, 1, Len(open) - 1)
  <2>2. rest \in Seq(Names) /\ Len(rest) = Len(open) - 1
        /\ \A j \in 1 .. Len(open) - 1 : rest[j] = open[j]
    BY <1>4, PopFacts
  <2>3. i \in DOMAIN rest /\ rest[i] = "malformed"
    <3>. HIDE DEF rest
    <3>1. i \in 1 .. Len(open) - 1
      <4>1. Len(open) \in Nat /\ i \in 1 .. Len(open)
        BY <1>1
      <4>. QED BY <2>1, <4>1
    <3>2. DOMAIN rest = 1 .. Len(rest)
      BY <2>2, LenProperties
    <3>. QED BY <1>2, <2>2, <3>1, <3>2
  <2>. QED BY <1>4, <2>3 DEF Nest, Malformed
<1>5. CASE e.kind = "close" /\ ~ (open # << >> /\ open[Len(open)] = e.tag)
  <2>. DEFINE all == << "malformed" >> \o open
  <2>1. all \in Seq(Names) /\ all[1] = "malformed" /\ Len(all) = 1 + Len(open)
    BY <1>1, ConcatProperties
  <2>2. 1 \in DOMAIN all
    <3>. HIDE DEF all
    <3>. QED BY <1>1, <2>1, LenProperties
  <2>. QED BY <1>5, <2>1, <2>2 DEF Nest, Malformed
<1>6. CASE e.kind \notin {"open", "close"}
  BY <1>6 DEF Nest
<1>. QED BY <1>3, <1>4, <1>5, <1>6

LEMMA PrefixIsNested ==
  ASSUME NEW s \in Seq(Element), NEW t \in Seq(Element), Malformed(OpenTags(s))
  PROVE  Malformed(OpenTags(s \o t))
<1>. DEFINE st == s \o t
<1>1. /\ st \in Seq(Element) /\ Len(st) = Len(s) + Len(t) /\ Len(s) \in Nat /\ Len(t) \in Nat
      /\ \A i \in 1 .. Len(s) : s[i] = st[i]
      /\ \A i \in 1 .. Len(st) : st[i] \in Element
  BY ConcatProperties, LenProperties, ElementOfSeq
<1>. HIDE DEF st
<1>2. PICK f : IsFold(f, Len(s), << >>, NestStep, s) /\ f[Len(s)] = OpenTags(s)
  BY OpenTagsIsFold
<1>3. PICK g : /\ IsFold(g, Len(st), << >>, NestStep, st)
               /\ g[Len(st)] = OpenTags(st) /\ OpenTags(st) \in Seq(Names)
  BY <1>1, OpenTagsIsFold
<1>4. IsFold(g, Len(s), << >>, NestStep, st)
  BY <1>1, <1>3 DEF IsFold
<1>5. g[Len(s)] = OpenTags(s)
  <2>1. SameUpTo(Len(s), s, st)
    BY <1>1 DEF SameUpTo
  <2>. QED BY <1>1, <1>2, <1>4, <2>1, FoldsAgree
<1>. DEFINE N == {k \in Nat : k <= Len(t) => g[Len(s) + k] \in Seq(Names) /\ Malformed(g[Len(s) + k])}
<1>6. 0 \in N
  BY <1>1, <1>5, OpenTagsFacts
<1>7. ASSUME NEW k \in Nat, k \in N PROVE k + 1 \in N
  <2>1. SUFFICES ASSUME k + 1 <= Len(t)
                 PROVE  g[Len(s) + (k + 1)] \in Seq(Names) /\ Malformed(g[Len(s) + (k + 1)])
    OBVIOUS
  <2>2. g[Len(s) + k] \in Seq(Names) /\ Malformed(g[Len(s) + k])
    BY <1>7, <2>1
  <2>3. /\ Len(s) + (k + 1) \in 1 .. Len(st) /\ Len(s) + (k + 1) - 1 = Len(s) + k
        /\ st[Len(s) + (k + 1)] \in Element
    BY <1>1, <2>1
  <2>4. g[Len(s) + (k + 1)] = NestStep[g[Len(s) + k]][st[Len(s) + (k + 1)]]
    BY <1>3, <2>3 DEF IsFold
  <2>5. g[Len(s) + (k + 1)] = Nest(g[Len(s) + k], st[Len(s) + (k + 1)])
    BY <2>2, <2>3, <2>4 DEF NestStep
  <2>. QED BY <2>2, <2>3, <2>5, MarksStay, NestIsTyped
<1>8. Nat \subseteq N
  <2>. HIDE DEF N
  <2>. QED BY <1>6, <1>7, Induction
<1>9. Malformed(g[Len(s) + Len(t)])
  BY <1>1, <1>8
<1>. QED BY <1>1, <1>3, <1>9 DEF st
-----------------------------------------------------------------------------
(***************************************************************************)
(* The inductive invariant: one dump at a time, and where it writes to.    *)
(***************************************************************************)
Todos == [leaks: 0 .. MaxLeaks, elements: -1 .. num_elements_to_dump]

DataTypes ==
  /\ patient \in Patient /\ m_wasStarted \in [Launchers -> BOOLEAN]
  /\ step \in {"none", "reset", "options", "files"}
  /\ alive \in BOOLEAN /\ dumpInProgress \in BOOLEAN
  /\ outputStream \in Launchers \cup {"stdout", "null"}
  /\ printed \in [Launchers -> Seq(Element)] /\ channel \in [Launchers -> Seq(Element)]
  /\ \A l \in Launchers : Len(channel[l]) <= BufferSize
  /\ console \in Seq(Element)
  /\ todo \in [Launchers -> Todos]
  /\ xml_depth \in Nat

Writing    == Late \ {"finish", "done"}
Unfinished == Writing \ {"close"}              (* Lines are to come.        *)

OneDump ==
  /\ \A d \in Launchers : dumper[d] \in {"gc", "connect", "finish"} \cup Writing => dumpInProgress
  /\ \A d, o \in Launchers :
       {dumper[d], dumper[o]} \subseteq {"gc", "connect", "finish"} \cup Writing => d = o

(* The elements that are open where a dumper is.                            *)
Nesting(pc) ==
  CASE pc \in {"search", "leak"} -> Append(<< >>, "memory-leaks")
    [] pc \in {"print_fn", "references", "closeLeak"} ->
         Append(Append(<< >>, "memory-leaks"), "leaking-object")
    [] pc = "elements" ->
         Append(Append(Append(<< >>, "memory-leaks"), "leaking-object"), "collection")
    [] OTHER -> << >>

(* The globals are those of the dump that writes.                           *)
Streams ==
  \A d \in Launchers :
    /\ dumper[d] \in {"gc", "connect"} => outputStream = "stdout"
    /\ dumper[d] \in Writing =>
         /\ outputStream \in (IF conn[d] = "failed" THEN {"stdout"}
                              ELSE IF dumper[d] = "begin" THEN {d, "null"} ELSE {d})
         /\ xml_depth = Len(Nesting(dumper[d]))

(* Connections end with their dumps or with the target.                     *)
Ends ==
  \A d \in Launchers :
    /\ dumper[d] \in Late => conn[d] # "none"
    /\ dumper[d] \in {"finish", "done"} \/ ~alive => conn[d] # "open"
    /\ alive /\ conn[d] = "closed" => dumper[d] \in {"finish", "done"}

DumpInv == DataTypes /\ OneDump /\ Streams /\ Ends

(***************************************************************************)
(* The inductive invariant: where the lines of a report are.               *)
(***************************************************************************)
Holds ==
  \A l \in Launchers :
    /\ peer[l] = None => printed[l] = << >> /\ server[l] # "ended"
    /\ peer[l] # None =>
         /\ server[l] = "ended" => conn[peer[l]] = "closed" /\ channel[peer[l]] = << >>
         /\ server[l] = "killed" => conn[peer[l]] = "reset"
         /\ server[l] \notin {"ended", "killed"} => conn[peer[l]] \in {"open", "closed"}

Arrives ==
  \A d \in Launchers :
    /\ conn[d] \in {"open", "closed"} =>
         \A l \in Launchers : to[d] = l => peer[l] = d \/ d \in InBacklog(l)
    /\ conn[d] \in {"none", "failed", "reset"} => channel[d] = << >>
    /\ conn[d] # "failed" => OnConsole(d) = << >>

LinesInv == Holds /\ Arrives

(***************************************************************************)
(* The inductive invariant: what a dump has written.                       *)
(***************************************************************************)
Taken(d) == IF to[d] \in Launchers /\ peer[to[d]] = d THEN printed[to[d]] ELSE << >>
Text(d)  == IF conn[d] = "failed" THEN OnConsole(d) ELSE Taken(d) \o channel[d]

LinesBy(d, s) ==
  /\ s \in Seq(Element)
  /\ \A i \in DOMAIN s : s[i].by = d /\ (s[i].kind = "text" <=> i = 1)
  /\ Len(s) > 1 => s[2].tag = "memory-leaks"

AsFarAs(pc, s) ==
  /\ OpenTags(s) = Nesting(pc)
  /\ pc = "begin" <=> Len(s) = 0
  /\ pc = "open" <=> Len(s) = 1
  /\ pc \in {"close", "finish", "done"} => Len(s) > 2

TextRight(d) ==
  /\ conn[d] \in {"failed", "open", "closed"} => LinesBy(d, Text(d)) /\ AsFarAs(dumper[d], Text(d))
  /\ conn[d] = "reset" => PartOfReport(d, Text(d))

Texts == \A d \in Launchers : TextRight(d)

(* A launcher without a server never had one.                               *)
Unserved == \A l \in Launchers : server[l] = "none" => main[l] \in {"idle", "failed"} /\ attaching # l

SessionInv == NetInv /\ DumpInv /\ LinesInv /\ Texts /\ Unserved
-----------------------------------------------------------------------------
(* Every element that a dump writes fits to where its dumper is.            *)
Lines ==
  { << "begin", "open", "text", "xml" >>,
    << "open", "search", "open", "memory-leaks" >>,
    << "leak", "print_fn", "open", "leaking-object" >>,
    << "print_fn", "elements", "open", "collection" >>,
    << "elements", "elements", "complete", "error" >>,
    << "elements", "elements", "complete", "element" >>,
    << "elements", "references", "close", "collection" >>,
    << "references", "closeLeak", "complete", "references" >>,
    << "closeLeak", "leak", "close", "leaking-object" >>,
    << "leak", "close", "close", "memory-leaks" >> }

LEMMA PushPop ==
  ASSUME NEW S, NEW s \in Seq(S), NEW x \in S
  PROVE  /\ Append(s, x) \in Seq(S) /\ Append(s, x) # << >>
         /\ Append(s, x)[Len(Append(s, x))] = x
         /\ SubSeq(Append(s, x), 1, Len(Append(s, x)) - 1) = s
<1>. DEFINE t == Append(s, x)
            r == SubSeq(t, 1, Len(t) - 1)
<1>1. /\ t \in Seq(S) /\ Len(t) = Len(s) + 1 /\ t # << >> /\ t[Len(t)] = x
      /\ \A i \in 1 .. Len(s) : t[i] = s[i]
  BY PushFacts
<1>2. Len(s) \in Nat
  BY LenProperties
<1>3. r \in Seq(S) /\ Len(r) = Len(t) - 1 /\ \A i \in 1 .. Len(t) - 1 : r[i] = t[i]
  <2>. HIDE DEF t
  <2>. QED BY <1>1, PopFacts
<1>. HIDE DEF t, r
<1>4. Len(r) = Len(s) /\ \A i \in 1 .. Len(s) : r[i] = s[i]
  BY <1>1, <1>2, <1>3
<1>5. r = s
  BY <1>3, <1>4, SeqEqual
<1>. QED BY <1>1, <1>5 DEF t, r

LEMMA NestingFacts ==
  ASSUME NEW pc
  PROVE  /\ Nesting(pc) \in Seq(Tags) /\ Nesting(pc) \in Seq(Names)
         /\ pc \in {"search", "leak", "print_fn", "references", "closeLeak", "elements"} =>
              Nesting(pc) # << >>
<1>1. ASSUME NEW S, {"memory-leaks", "leaking-object", "collection"} \subseteq S
      PROVE  /\ << >> \in Seq(S)
             /\ Append(<< >>, "memory-leaks") \in Seq(S)
             /\ Append(Append(<< >>, "memory-leaks"), "leaking-object") \in Seq(S)
             /\ Append(Append(Append(<< >>, "memory-leaks"), "leaking-object"), "collection")
                  \in Seq(S)
             /\ Append(<< >>, "memory-leaks") # << >>
             /\ Append(Append(<< >>, "memory-leaks"), "leaking-object") # << >>
             /\ Append(Append(Append(<< >>, "memory-leaks"), "leaking-object"), "collection") # << >>
  <2>1. << >> \in Seq(S)
    BY EmptySeq
  <2>2. Append(<< >>, "memory-leaks") \in Seq(S) /\ Append(<< >>, "memory-leaks") # << >>
    BY <1>1, <2>1, PushFacts
  <2>3. /\ Append(Append(<< >>, "memory-leaks"), "leaking-object") \in Seq(S)
        /\ Append(Append(<< >>, "memory-leaks"), "leaking-object") # << >>
    BY <1>1, <2>2, PushFacts
  <2>4. /\ Append(Append(Append(<< >>, "memory-leaks"), "leaking-object"), "collection") \in Seq(S)
        /\ Append(Append(Append(<< >>, "memory-leaks"), "leaking-object"), "collection") # << >>
    BY <1>1, <2>3, PushFacts
  <2>. QED BY <2>1, <2>2, <2>3, <2>4
<1>2. Nesting(pc) \in Seq(Tags)
  BY <1>1 DEF Nesting, Tags
<1>3. Nesting(pc) \in Seq(Names)
  BY <1>1 DEF Nesting, Tags, Names
<1>4. pc \in {"search", "leak", "print_fn", "references", "closeLeak", "elements"} =>
        Nesting(pc) # << >>
  BY <1>1 DEF Nesting
<1>. QED BY <1>2, <1>3, <1>4

LEMMA LinesNest ==
  ASSUME NEW from, NEW next, NEW kind, NEW tag, << from, next, kind, tag >> \in Lines,
         NEW e, e.kind = kind, e.tag = tag
  PROVE  /\ Nest(Nesting(from), e) = Nesting(next)
         /\ kind = "open" => Len(Nesting(next)) = Len(Nesting(from)) + 1
         /\ kind = "close" => Len(Nesting(next)) = Len(Nesting(from)) - 1
         /\ kind \in {"complete", "text"} => Len(Nesting(next)) = Len(Nesting(from))
<1>1. /\ Nesting(from) \in Seq(Tags) /\ Nesting(next) \in Seq(Tags) /\ tag \in Tags
      /\ kind \in {"open", "close", "complete", "text"}
  BY NestingFacts DEF Lines, Tags
<1>2. CASE kind = "open"
  <2>1. Nesting(next) = Append(Nesting(from), tag)
    BY <1>2 DEF Lines, Nesting
  <2>. QED BY <1>1, <1>2, <2>1, PushFacts DEF Nest
<1>3. CASE kind = "close"
  <2>1. Nesting(from) = Append(Nesting(next), tag)
    BY <1>3 DEF Lines, Nesting
  <2>2. /\ Nesting(from) # << >> /\ Nesting(from)[Len(Nesting(from))] = tag
        /\ SubSeq(Nesting(from), 1, Len(Nesting(from)) - 1) = Nesting(next)
    BY <1>1, <2>1, PushPop
  <2>3. Len(Nesting(from)) = Len(Nesting(next)) + 1 /\ Len(Nesting(next)) \in Nat
    BY <1>1, <2>1, PushFacts, LenProperties
  <2>4. Nest(Nesting(from), e) = Nesting(next)
    BY <1>3, <2>2 DEF Nest
  <2>. QED BY <1>3, <2>3, <2>4
<1>4. CASE kind \in {"complete", "text"}
  <2>1. Nesting(next) = Nesting(from)
    BY <1>4 DEF Lines, Nesting
  <2>. QED BY <1>4, <2>1 DEF Nest
<1>. QED BY <1>1, <1>2, <1>3, <1>4

(* One more line of a report.                                               *)
LEMMA ReportGrows ==
  ASSUME NEW d \in Launchers, NEW from, NEW next, NEW kind, NEW tag,
         << from, next, kind, tag >> \in Lines,
         NEW s, LinesBy(d, s), AsFarAs(from, s)
  PROVE  LET e == [by |-> d, kind |-> kind, tag |-> tag]
         IN  e \in Element /\ LinesBy(d, Append(s, e)) /\ AsFarAs(next, Append(s, e))
<1>. DEFINE e == [by |-> d, kind |-> kind, tag |-> tag]
            t == Append(s, e)
<1>1. e \in Element /\ e.by = d /\ e.kind = kind /\ e.tag = tag
  BY DEF Element, Lines
<1>. HIDE DEF e
<1>2. s \in Seq(Element) /\ Len(s) \in Nat /\ DOMAIN s = 1 .. Len(s)
  BY LenProperties DEF LinesBy
<1>3. /\ t \in Seq(Element) /\ Len(t) = Len(s) + 1 /\ t[Len(s) + 1] = e
      /\ \A i \in 1 .. Len(s) : t[i] = s[i]
  BY <1>1, <1>2, PushFacts
<1>4. OpenTags(t) = Nesting(next)
  <2>1. OpenTags(t) = Nest(OpenTags(s), e)
    BY <1>1, <1>2, OpenTagsFacts
  <2>2. Nest(Nesting(from), e) = Nesting(next)
    BY <1>1, LinesNest
  <2>. QED BY <2>1, <2>2 DEF AsFarAs
<1>. HIDE DEF t
<1>5. DOMAIN t = 1 .. Len(s) + 1
  BY <1>3, LenProperties
<1>6. (kind = "text" <=> from = "begin") /\ (from = "open" => tag = "memory-leaks")
  BY DEF Lines
<1>7. /\ from = "begin" <=> Len(s) = 0
      /\ from = "open" <=> Len(s) = 1
  BY DEF AsFarAs
<1>8. LinesBy(d, t)
  <2>1. \A i \in 1 .. Len(s) : t[i].by = d /\ (t[i].kind = "text" <=> i = 1)
    BY <1>2, <1>3 DEF LinesBy
  <2>2. t[Len(s) + 1].by = d /\ (t[Len(s) + 1].kind = "text" <=> Len(s) + 1 = 1)
    BY <1>1, <1>2, <1>3, <1>6, <1>7
  <2>3. \A i \in 1 .. Len(s) + 1 : i \in 1 .. Len(s) \/ i = Len(s) + 1
    BY <1>2
  <2>4. Len(t) > 1 => t[2].tag = "memory-leaks"
    <3>1. CASE Len(s) > 1
      BY <1>2, <1>3, <3>1 DEF LinesBy
    <3>2. CASE Len(s) = 1
      BY <1>1, <1>3, <1>6, <1>7, <3>2
    <3>3. CASE Len(s) = 0
      BY <1>3, <3>3
    <3>. QED BY <1>2, <3>1, <3>2, <3>3
  <2>. QED BY <1>3, <1>5, <2>1, <2>2, <2>3, <2>4 DEF LinesBy
<1>9. AsFarAs(next, t)
  <2>1. /\ from = "begin" => next = "open"
        /\ from # "begin" => next # "open"
        /\ next # "begin" /\ next \notin {"finish", "done"}
        /\ next = "close" => from \notin {"begin", "open"}
    BY DEF Lines
  <2>2. Len(t) # 0 /\ (next = "open" <=> Len(t) = 1)
    BY <1>2, <1>3, <1>7, <2>1
  <2>3. next \in {"close", "finish", "done"} => Len(t) > 2
    BY <1>2, <1>3, <1>7, <2>1
  <2>. QED BY <1>4, <2>1, <2>2, <2>3 DEF AsFarAs
<1>. QED BY <1>1, <1>8, <1>9 DEF e, t

(* What is written is part of a report, and all of it at the end.           *)
LEMMA ReportIsRight ==
  ASSUME NEW d, NEW pc, NEW s, LinesBy(d, s), AsFarAs(pc, s)
  PROVE  /\ PartOfReport(d, s)
         /\ pc \in {"close", "finish", "done"} => WholeReport(d, s)
         /\ pc \in Unfinished => ~ WholeReport(d, s)
<1>1. \A i \in DOMAIN OpenTags(s) : OpenTags(s)[i] # "malformed"
  <2>1. OpenTags(s) \in Seq(Tags)
    BY NestingFacts DEF AsFarAs
  <2>2. \A i \in DOMAIN OpenTags(s) : OpenTags(s)[i] \in Tags
    BY <2>1, LenProperties, ElementOfSeq
  <2>. QED BY <2>2 DEF Tags
<1>2. PartOfReport(d, s)
  BY <1>1 DEF LinesBy, PartOfReport
<1>3. pc \in {"close", "finish", "done"} => WholeReport(d, s)
  BY <1>2 DEF WholeReport, AsFarAs, Nesting
<1>4. pc \in {"search", "leak", "print_fn", "references", "closeLeak", "elements"} =>
        ~ WholeReport(d, s)
  BY NestingFacts DEF WholeReport, AsFarAs
<1>5. pc \in {"begin", "open"} => ~ WholeReport(d, s)
  BY DEF WholeReport, AsFarAs
<1>6. pc \in Unfinished => ~ WholeReport(d, s)
  BY <1>4, <1>5 DEF Unfinished, Writing, Late
<1>. QED BY <1>2, <1>3, <1>6

(* What comes first of a part of a report.                                  *)
LEMMA PartOfPart ==
  ASSUME NEW d, NEW s \in Seq(Element), NEW t \in Seq(Element), PartOfReport(d, s \o t)
  PROVE  PartOfReport(d, s)
<1>. DEFINE st == s \o t
<1>1. /\ st \in Seq(Element) /\ Len(st) = Len(s) + Len(t)
      /\ \A i \in 1 .. Len(s) : st[i] = s[i]
  BY ConcatProperties
<1>2. ~ Malformed(OpenTags(st))
  BY DEF PartOfReport, Malformed
<1>3. \A i \in DOMAIN OpenTags(s) : OpenTags(s)[i] # "malformed"
  BY <1>2, PrefixIsNested DEF Malformed
<1>4. /\ \A i \in DOMAIN st : st[i].by = d /\ (st[i].kind = "text" <=> i = 1)
      /\ Len(st) > 1 => st[2].tag = "memory-leaks"
  BY DEF PartOfReport
<1>. HIDE DEF st
<1>5. /\ DOMAIN st = 1 .. Len(st) /\ DOMAIN s = 1 .. Len(s) /\ Len(s) \in Nat /\ Len(t) \in Nat
  BY <1>1, LenProperties
<1>6. \A i \in DOMAIN s : s[i].by = d /\ (s[i].kind = "text" <=> i = 1)
  BY <1>1, <1>4, <1>5
<1>7. Len(s) > 1 => s[2].tag = "memory-leaks"
  BY <1>1, <1>4, <1>5
<1>. QED BY <1>3, <1>6, <1>7 DEF PartOfReport

LEMMA NothingIsPart == ASSUME NEW d PROVE PartOfReport(d, << >>)
<1>1. << >> \in Seq(Element) /\ Len(<< >>) = 0 /\ DOMAIN << >> = {}
  BY EmptySeq, LenProperties
<1>2. OpenTags(<< >>) = << >>
  BY <1>1, OpenTagsFacts
<1>. QED BY <1>1, <1>2 DEF PartOfReport
-----------------------------------------------------------------------------
(* The ten steps of a dumper that write, as one.                            *)
Writes(d, from, next, kind, tag) ==
  /\ << from, next, kind, tag >> \in Lines
  /\ Write(d, from, next) /\ myPrintf(d, kind, tag)
  /\ xml_depth' = CASE kind = "open" -> xml_depth + 1
                    [] kind = "close" -> xml_depth - 1
                    [] OTHER -> xml_depth
  /\ todo' \in [Launchers -> Todos]

LEMMA TodoFacts ==
  ASSUME todo \in [Launchers -> Todos], NEW d \in Launchers
  PROVE  /\ todo[d].leaks \in 0 .. MaxLeaks /\ todo[d].elements \in -1 .. num_elements_to_dump
         /\ \A n \in 0 .. MaxLeaks : [todo EXCEPT ![d].leaks = n] \in [Launchers -> Todos]
         /\ \A n \in -1 .. num_elements_to_dump :
              [todo EXCEPT ![d].elements = n] \in [Launchers -> Todos]
         /\ [todo EXCEPT ![d] = [leaks |-> 0, elements |-> 0]] \in [Launchers -> Todos]
<1>1. todo[d] \in Todos
  OBVIOUS
<1>2. /\ todo[d].leaks \in 0 .. MaxLeaks /\ todo[d].elements \in -1 .. num_elements_to_dump
      /\ \A n \in 0 .. MaxLeaks : [todo[d] EXCEPT !.leaks = n] \in Todos
      /\ \A n \in -1 .. num_elements_to_dump : [todo[d] EXCEPT !.elements = n] \in Todos
  BY <1>1 DEF Todos
<1>3. [leaks |-> 0, elements |-> 0] \in Todos
  BY ConstantsAssumption DEF Todos
<1>. QED BY <1>2, <1>3

LEMMA WritersWrite ==
  ASSUME DataTypes, NEW d \in Launchers,
         BeginReport(d) \/ OpenReport(d) \/ OpenLeak(d) \/ OpenCollection(d) \/ PrintError(d)
         \/ PrintElement(d) \/ CloseCollection(d) \/ PrintReferences(d) \/ CloseLeak(d)
         \/ CloseReport(d)
  PROVE  \E from, next, kind, tag : Writes(d, from, next, kind, tag)
<1>. USE DEF Writes, Lines, open_xml_element, close_xml_element, complete_xml_element
<1>1. CASE BeginReport(d)
  <2>1. Writes(d, "begin", "open", "text", "xml")
    BY <1>1 DEF BeginReport, DataTypes
  <2>. QED BY <2>1
<1>2. CASE OpenReport(d)
  <2>1. Writes(d, "open", "search", "open", "memory-leaks")
    BY <1>2 DEF OpenReport, DataTypes
  <2>. QED BY <2>1
<1>3. CASE OpenLeak(d)
  <2>1. todo' \in [Launchers -> Todos]
    <3>1. todo' = [todo EXCEPT ![d].leaks = todo[d].leaks - 1]
      BY <1>3 DEF OpenLeak
    <3>2. todo[d].leaks - 1 \in 0 .. MaxLeaks
      BY <1>3, TodoFacts, ConstantsAssumption DEF OpenLeak, DataTypes
    <3>. QED BY <3>1, <3>2, TodoFacts DEF DataTypes
  <2>2. Writes(d, "leak", "print_fn", "open", "leaking-object")
    BY <1>3, <2>1 DEF OpenLeak
  <2>. QED BY <2>2
<1>4. CASE OpenCollection(d)
  <2>1. todo' \in [Launchers -> Todos]
    <3>1. \E n \in -1 .. num_elements_to_dump : todo' = [todo EXCEPT ![d].elements = n]
      BY <1>4, TodoFacts, ConstantsAssumption DEF OpenCollection, DataTypes
    <3>. QED BY <3>1, TodoFacts DEF DataTypes
  <2>2. Writes(d, "print_fn", "elements", "open", "collection")
    BY <1>4, <2>1 DEF OpenCollection
  <2>. QED BY <2>2
<1>5. CASE PrintError(d)
  <2>1. todo' \in [Launchers -> Todos]
    <3>1. todo' = [todo EXCEPT ![d].elements = 0]
      BY <1>5 DEF PrintError
    <3>2. 0 \in -1 .. num_elements_to_dump
      BY <1>5, TodoFacts, ConstantsAssumption DEF PrintError, DataTypes
    <3>. QED BY <3>1, <3>2, TodoFacts DEF DataTypes
  <2>2. Writes(d, "elements", "elements", "complete", "error")
    BY <1>5, <2>1 DEF PrintError
  <2>. QED BY <2>2
<1>6. CASE PrintElement(d)
  <2>1. todo' \in [Launchers -> Todos]
    <3>1. todo' = [todo EXCEPT ![d].elements = todo[d].elements - 1]
      BY <1>6 DEF PrintElement
    <3>2. todo[d].elements - 1 \in -1 .. num_elements_to_dump
      BY <1>6, TodoFacts, ConstantsAssumption DEF PrintElement, DataTypes
    <3>. QED BY <3>1, <3>2, TodoFacts DEF DataTypes
  <2>2. Writes(d, "elements", "elements", "complete", "element")
    BY <1>6, <2>1 DEF PrintElement
  <2>. QED BY <2>2
<1>7. CASE CloseCollection(d)
  <2>1. Writes(d, "elements", "references", "close", "collection")
    BY <1>7 DEF CloseCollection, DataTypes
  <2>. QED BY <2>1
<1>8. CASE PrintReferences(d)
  <2>1. Writes(d, "references", "closeLeak", "complete", "references")
    BY <1>8 DEF PrintReferences, DataTypes
  <2>. QED BY <2>1
<1>9. CASE CloseLeak(d)
  <2>1. Writes(d, "closeLeak", "leak", "close", "leaking-object")
    BY <1>9 DEF CloseLeak, DataTypes
  <2>. QED BY <2>1
<1>10. CASE CloseReport(d)
  <2>1. todo' \in [Launchers -> Todos]
    BY <1>10, TodoFacts DEF CloseReport, DataTypes
  <2>2. Writes(d, "leak", "close", "close", "memory-leaks")
    BY <1>10, <2>1 DEF CloseReport
  <2>. QED BY <2>2
<1>. QED BY <1>1, <1>2, <1>3, <1>4, <1>5, <1>6, <1>7, <1>8, <1>9, <1>10

LEMMA StepKinds ==
  ASSUME DataTypes, [Next]_vars
  PROVE  \/ \E l \in Launchers :
              \/ Launch(l) \/ Load(l) \/ LoadBreaks(l) \/ StartServer(l) \/ AcceptTimesOut(l)
              \/ EndOfStream(l) \/ Accept(l) \/ ReadLine(l) \/ CloseServerSocket(l) \/ GiveUp(l)
              \/ Kill(l)
         \/ ResetOptions \/ ParseOptions \/ EndAttach \/ EndTarget
         \/ \E d \in Launchers :
              \/ Test(d) \/ RunGC(d) \/ establish_connection(d) \/ Search(d)
              \/ close_connection(d) \/ Finish(d)
              \/ \E from, next, kind, tag : Writes(d, from, next, kind, tag)
         \/ UNCHANGED vars
<1>1. ASSUME NEW d \in Launchers, Dumper(d) \/ DumpFails(d), ~ EndTarget
      PROVE  \/ Test(d) \/ RunGC(d) \/ establish_connection(d) \/ Search(d)
             \/ close_connection(d) \/ Finish(d)
             \/ \E from, next, kind, tag : Writes(d, from, next, kind, tag)
  <2>1. ~ NullStream(d) /\ ~ DumpFails(d)
    BY <1>1 DEF DumpFails, NullStream, SearchFails, ChainFails, NullElement, ReferencesFail
  <2>. QED BY <1>1, <2>1, WritersWrite DEF Dumper, PrintLeak
<1>. QED BY <1>1 DEF Next, MainThread, ServerThread, AttachThread
-----------------------------------------------------------------------------
(* The connections that a launcher resets are open or closed.               *)
LEMMA LostWereOpen ==
  ASSUME SessionInv, NEW l \in Launchers, CloseServerSocket(l) \/ GiveUp(l) \/ Kill(l)
  PROVE  \E lost \in SUBSET Launchers :
           /\ ResetConnections(l, lost)
           /\ InBacklog(l) \subseteq lost
           /\ \A d \in lost : /\ conn[d] \in {"open", "closed"} /\ to[d] = l
                              /\ peer[l] # d \/ server'[l] = "killed"
           /\ server[l] \in {"accepted", "reading"} =>
                server'[l] = "reading" \/ (server'[l] = "killed" /\ peer[l] \in lost)
           /\ server[l] = "ended" <=> server'[l] = "ended"
           /\ server[l] = "killed" => server'[l] = "killed"
           /\ \A o \in Launchers \ {l} : server'[o] = server[o]
           /\ UNCHANGED <<peer, printed, alive, dumper, dumpInProgress, outputStream, console,
                          todo, xml_depth>>
<1>1. \A d \in InBacklog(l) : /\ conn[d] \in {"open", "closed"} /\ d \in Launchers
                              /\ to[d] = l /\ peer[l] # d
  BY LenProperties DEF SessionInv, NetInv, Types, Queues, Queued, InBacklog
<1>2. CASE CloseServerSocket(l)
  <2>1. /\ server[l] = "accepted" /\ server'[l] = "reading"
        /\ \A o \in Launchers \ {l} : server'[o] = server[o]
    BY <1>2 DEF CloseServerSocket, serverTo, SessionInv, NetInv, Types
  <2>. QED BY <1>1, <1>2, <2>1 DEF CloseServerSocket, xmlVars
<1>3. CASE GiveUp(l)
  <2>1. /\ server[l] = "timedOut" /\ server'[l] = "failed"
        /\ \A o \in Launchers \ {l} : server'[o] = server[o]
    BY <1>3 DEF GiveUp, serverTo, SessionInv, NetInv, Types
  <2>. QED BY <1>1, <1>3, <2>1 DEF GiveUp, xmlVars
<1>4. CASE Kill(l)
  <2>. DEFINE lost == InBacklog(l) \cup
                      (IF server[l] \in {"accepted", "reading"} THEN {peer[l]} ELSE {})
  <2>1. server[l] \in {"accepted", "reading"} =>
          /\ peer[l] \in Launchers /\ conn[peer[l]] \in {"open", "closed"}
          /\ to[peer[l]] = l /\ server'[l] = "killed"
    BY <1>4 DEF Kill, serverTo, SessionInv, NetInv, Types, Peers, LinesInv, Holds
  <2>2. ResetConnections(l, lost)
    BY <1>4 DEF Kill
  <2>3. \A d \in lost : /\ d \in Launchers /\ conn[d] \in {"open", "closed"} /\ to[d] = l
                        /\ peer[l] # d \/ server'[l] = "killed"
    BY <1>1, <2>1
  <2>4. server[l] \in {"accepted", "reading"} => server'[l] = "killed" /\ peer[l] \in lost
    BY <2>1
  <2>5. UNCHANGED <<peer, printed, alive, dumper, dumpInProgress, outputStream, console, todo,
                    xml_depth>>
    BY <1>4 DEF Kill, xmlVars
  <2>6. InBacklog(l) \subseteq lost
    OBVIOUS
  <2>7. /\ server[l] = "ended" <=> server'[l] = "ended"
        /\ server[l] = "killed" => server'[l] = "killed"
        /\ \A o \in Launchers \ {l} : server'[o] = server[o]
    BY <1>4 DEF Kill, serverTo, SessionInv, NetInv, Types
  <2>. HIDE DEF lost
  <2>. QED BY <2>2, <2>3, <2>4, <2>5, <2>6, <2>7
<1>. QED BY <1>2, <1>3, <1>4

LEMMA DumpInit == Init => DumpInv
<1>. SUFFICES ASSUME Init PROVE DumpInv
  OBVIOUS
<1>1. << >> \in Seq(Element) /\ Len(<< >>) = 0
  BY EmptySeq
<1>2. DataTypes
  <2>1. todo \in [Launchers -> Todos]
    <3>1. [leaks |-> 0, elements |-> 0] \in Todos
      BY ConstantsAssumption DEF Todos
    <3>2. todo = [d \in Launchers |-> [leaks |-> 0, elements |-> 0]]
      BY DEF Init
    <3>. QED BY <3>1, <3>2
  <2>2. /\ printed = [l \in Launchers |-> << >>] /\ channel = [d \in Launchers |-> << >>]
        /\ console = << >> /\ patient \in Patient
        /\ m_wasStarted = [l \in Launchers |-> FALSE]
        /\ step = "none" /\ alive = TRUE /\ dumpInProgress = FALSE
        /\ outputStream = "stdout" /\ xml_depth = 0
    BY DEF Init
  <2>3. ASSUME NEW l \in Launchers PROVE Len(channel[l]) <= BufferSize
    <3>1. channel = [d \in Launchers |-> << >>]
      BY DEF Init
    <3>2. channel[l] = << >>
      BY <3>1
    <3>3. Len(<< >>) <= BufferSize
      BY <1>1, ConstantsAssumption
    <3>. QED BY <3>2, <3>3
  <2>4. printed \in [Launchers -> Seq(Element)] /\ channel \in [Launchers -> Seq(Element)]
    BY <1>1, <2>2
  <2>5. m_wasStarted \in [Launchers -> BOOLEAN]
    BY <2>2
  <2>6. xml_depth \in Nat
    BY <2>2
  <2>. QED BY <1>1, <2>1, <2>2, <2>3, <2>4, <2>5, <2>6 DEF DataTypes
<1>3. /\ dumper = [d \in Launchers |-> "none"] /\ conn = [d \in Launchers |-> "none"]
      /\ alive = TRUE
  BY DEF Init
<1>4. OneDump /\ Streams /\ Ends
  BY <1>3 DEF OneDump, Streams, Ends, Writing, Late
<1>. QED BY <1>2, <1>4 DEF DumpInv

LEMMA DataTypesStep == SessionInv /\ [Next]_vars => DataTypes'
<1>. SUFFICES ASSUME SessionInv, [Next]_vars PROVE DataTypes'
  OBVIOUS
<1>0. DataTypes /\ Types
  BY DEF SessionInv, DumpInv, NetInv
<1>. USE DEF serverTo, mainTo, launcherVars, attachVars, netVars, xmlVars, dumpVars
<1>1. ASSUME NEW l \in Launchers,
             Launch(l) \/ Load(l) \/ LoadBreaks(l) \/ StartServer(l) \/ AcceptTimesOut(l)
             \/ EndOfStream(l) \/ Accept(l)
      PROVE  DataTypes'
  BY <1>0, <1>1 DEF DataTypes, Launch, Load, LoadBreaks, StartServer, AcceptTimesOut,
                    EndOfStream, Accept
<1>2. ASSUME NEW l \in Launchers, ReadLine(l) PROVE DataTypes'
  <2>. DEFINE p == peer[l]
              c == channel[p]
  <2>1. p \in Launchers /\ c # << >> /\ c \in Seq(Element) /\ Len(c) <= BufferSize
    BY <1>0, <1>2 DEF ReadLine, SessionInv, NetInv, Peers, Types, DataTypes
  <2>2. /\ Head(c) \in Element /\ Tail(c) \in Seq(Element) /\ Len(Tail(c)) = Len(c) - 1
        /\ Len(c) \in Nat
    BY <2>1, HeadTailProperties, LenProperties
  <2>3. Append(printed[l], Head(c)) \in Seq(Element)
    BY <1>0, <2>2, PushFacts DEF DataTypes
  <2>4. printed' \in [Launchers -> Seq(Element)] /\ channel' \in [Launchers -> Seq(Element)]
    BY <1>0, <1>2, <2>1, <2>2, <2>3 DEF ReadLine, DataTypes
  <2>5. \A o \in Launchers : Len(channel'[o]) <= BufferSize
    <3>1. Len(Tail(c)) <= BufferSize
      BY <2>1, <2>2, ConstantsAssumption
    <3>2. \A o \in Launchers : channel'[o] = IF o = p THEN Tail(c) ELSE channel[o]
      BY <1>0, <1>2, <2>1 DEF ReadLine, DataTypes
    <3>. QED BY <1>0, <3>1, <3>2 DEF DataTypes
  <2>6. UNCHANGED <<patient, m_wasStarted, alive, step, dumpInProgress, outputStream, console,
                    todo, xml_depth>>
    BY <1>2 DEF ReadLine
  <2>. QED BY <1>0, <2>4, <2>5, <2>6 DEF DataTypes
<1>3. ASSUME NEW l \in Launchers, CloseServerSocket(l) \/ GiveUp(l) \/ Kill(l) PROVE DataTypes'
  <2>1. /\ \E lost \in SUBSET Launchers : ResetConnections(l, lost)
        /\ UNCHANGED <<printed, alive, dumpInProgress, outputStream, console, todo, xml_depth>>
    BY <1>3, LostWereOpen
  <2>2. UNCHANGED <<patient, m_wasStarted, step>>
    BY <1>3 DEF CloseServerSocket, GiveUp, Kill
  <2>3. << >> \in Seq(Element) /\ Len(<< >>) <= BufferSize
    BY EmptySeq, ConstantsAssumption
  <2>4. channel' \in [Launchers -> Seq(Element)] /\ \A d \in Launchers : Len(channel'[d]) <= BufferSize
    BY <1>0, <2>1, <2>3 DEF ResetConnections, DataTypes
  <2>. QED BY <1>0, <2>1, <2>2, <2>4 DEF DataTypes
<1>4. CASE ResetOptions \/ ParseOptions \/ EndAttach
  BY <1>0, <1>4 DEF DataTypes, ResetOptions, ParseOptions, EndAttach
<1>5. ASSUME NEW d \in Launchers,
             Test(d) \/ RunGC(d) \/ close_connection(d) \/ Finish(d)
      PROVE  DataTypes'
  BY <1>0, <1>5 DEF DataTypes, Test, RunGC, close_connection, Finish
<1>6. ASSUME NEW d \in Launchers, establish_connection(d) PROVE DataTypes'
  BY <1>0, <1>6 DEF DataTypes, establish_connection
<1>7. ASSUME NEW d \in Launchers, Search(d) PROVE DataTypes'
  <2>1. todo' \in [Launchers -> Todos]
    BY <1>0, <1>7, TodoFacts DEF Search, DataTypes
  <2>. QED BY <1>0, <1>7, <2>1 DEF DataTypes, Search
<1>8. ASSUME NEW d \in Launchers, NEW from, NEW next, NEW kind, NEW tag,
             Writes(d, from, next, kind, tag)
      PROVE  DataTypes'
  <2>. DEFINE e == [by |-> d, kind |-> kind, tag |-> tag]
  <2>1. e \in Element
    BY <1>8 DEF Writes, Lines, Element
  <2>2. \A s \in Seq(Element) : Append(s, e) \in Seq(Element) /\ Len(Append(s, e)) = Len(s) + 1
    <3>. HIDE DEF e
    <3>. QED BY <2>1, PushFacts
  <2>3. console' \in Seq(Element)
    BY <1>0, <1>8, <2>2 DEF Writes, myPrintf, DataTypes
  <2>4. channel' \in [Launchers -> Seq(Element)] /\ \A o \in Launchers : Len(channel'[o]) <= BufferSize
    <3>1. CASE UNCHANGED channel
      BY <1>0, <3>1 DEF DataTypes
    <3>2. CASE ~ UNCHANGED channel
      <4>1. /\ outputStream \in Launchers /\ Len(channel[outputStream]) < BufferSize
            /\ channel' = [channel EXCEPT ![outputStream] = Append(@, e)]
        BY <1>0, <1>8, <3>2 DEF Writes, myPrintf, DataTypes
      <4>2. /\ Append(channel[outputStream], e) \in Seq(Element)
            /\ Len(Append(channel[outputStream], e)) = Len(channel[outputStream]) + 1
            /\ Len(channel[outputStream]) \in Nat
        BY <1>0, <2>2, <4>1, LenProperties DEF DataTypes
      <4>3. Len(Append(channel[outputStream], e)) <= BufferSize
        BY <4>1, <4>2, ConstantsAssumption
      <4>. HIDE DEF e
      <4>. QED BY <1>0, <4>1, <4>2, <4>3 DEF DataTypes
    <3>. QED BY <3>1, <3>2
  <2>5. xml_depth' \in Nat
    <3>1. xml_depth = Len(Nesting(from))
      BY <1>8 DEF Writes, Write, SessionInv, DumpInv, Streams, Lines, Writing, Late
    <3>2. kind = "close" => Len(Nesting(next)) = Len(Nesting(from)) - 1
      <4>1. e.kind = kind /\ e.tag = tag
        OBVIOUS
      <4>. HIDE DEF e
      <4>. QED BY <1>8, <4>1, LinesNest DEF Writes
    <3>3. Len(Nesting(next)) \in Nat
      BY NestingFacts, LenProperties
    <3>. QED BY <1>0, <1>8, <3>1, <3>2, <3>3 DEF Writes, DataTypes
  <2>6. UNCHANGED <<patient, m_wasStarted, alive, step, dumpInProgress, outputStream, printed>>
    BY <1>8 DEF Writes, Write
  <2>7. todo' \in [Launchers -> Todos]
    BY <1>8 DEF Writes
  <2>. QED BY <1>0, <2>3, <2>4, <2>5, <2>6, <2>7 DEF DataTypes
<1>9. CASE UNCHANGED vars
  BY <1>0, <1>9 DEF vars, DataTypes
<1>10. CASE EndTarget
  BY <1>0, <1>10 DEF DataTypes, EndTarget
<1>. QED BY <1>0, <1>1, <1>2, <1>3, <1>4, <1>5, <1>6, <1>7, <1>8, <1>9, <1>10, StepKinds

(* Steps that no dumper takes.                                              *)
LEMMA DumpsRest ==
  ASSUME OneDump, Streams, Ends, UNCHANGED <<alive, dumper, dumpInProgress, outputStream, xml_depth>>,
         \A d \in Launchers :
           conn'[d] = conn[d] \/ (conn[d] \in {"open", "closed"} /\ conn'[d] = "reset")
  PROVE  OneDump' /\ Streams' /\ Ends'
<1>1. OneDump'
  BY DEF OneDump
<1>2. Streams'
  <2>1. \A d \in Launchers : conn'[d] = "failed" <=> conn[d] = "failed"
    OBVIOUS
  <2>. QED BY <2>1 DEF Streams, Nesting
<1>3. Ends'
  BY DEF Ends
<1>. QED BY <1>1, <1>2, <1>3

LEMMA DumpStep == SessionInv /\ [Next]_vars => DumpInv'
<1>. SUFFICES ASSUME SessionInv, [Next]_vars PROVE OneDump' /\ Streams' /\ Ends'
  BY DataTypesStep DEF DumpInv
<1>0. DataTypes /\ Types /\ OneDump /\ Streams /\ Ends /\ ConnectsOnce /\ StartsOnce
  BY DEF SessionInv, DumpInv, NetInv
<1>. USE DEF serverTo, mainTo, launcherVars, attachVars, netVars, xmlVars, dumpVars
<1>1. ASSUME NEW l \in Launchers,
             Launch(l) \/ Load(l) \/ LoadBreaks(l) \/ StartServer(l) \/ AcceptTimesOut(l)
             \/ EndOfStream(l) \/ Accept(l) \/ ReadLine(l)
      PROVE  OneDump' /\ Streams' /\ Ends'
  <2>1. UNCHANGED <<alive, dumper, dumpInProgress, outputStream, xml_depth, conn>>
    BY <1>1 DEF Launch, Load, LoadBreaks, StartServer, AcceptTimesOut, EndOfStream, Accept, ReadLine
  <2>. QED BY <1>0, <2>1, DumpsRest
<1>2. ASSUME NEW l \in Launchers, CloseServerSocket(l) \/ GiveUp(l) \/ Kill(l)
      PROVE  OneDump' /\ Streams' /\ Ends'
  <2>1. PICK lost \in SUBSET Launchers :
          /\ ResetConnections(l, lost) /\ \A d \in lost : conn[d] \in {"open", "closed"}
          /\ UNCHANGED <<alive, dumper, dumpInProgress, outputStream, xml_depth>>
    BY <1>2, LostWereOpen
  <2>2. \A d \in Launchers : conn'[d] = IF d \in lost THEN "reset" ELSE conn[d]
    BY <2>1 DEF ResetConnections
  <2>. QED BY <1>0, <2>1, <2>2, DumpsRest
<1>3. CASE ResetOptions \/ ParseOptions \/ UNCHANGED vars
  <2>1. UNCHANGED <<alive, dumper, dumpInProgress, outputStream, xml_depth, conn>>
    BY <1>3 DEF ResetOptions, ParseOptions, vars
  <2>. QED BY <1>0, <2>1, DumpsRest
<1>4. CASE EndAttach
  <2>1. /\ \A d \in Launchers : dumper'[d] = dumper[d]
                                \/ (dumper[d] = "none" /\ dumper'[d] = "testAndSet")
        /\ UNCHANGED <<alive, dumpInProgress, outputStream, xml_depth, conn>>
    BY <1>0, <1>4 DEF EndAttach, Types, StartsOnce
  <2>2. OneDump' /\ Ends'
    BY <1>0, <2>1 DEF OneDump, Ends, Writing, Late
  <2>3. Streams'
    <3>1. \A d \in Launchers : dumper'[d] \in {"gc", "connect"} \cup Writing => dumper'[d] = dumper[d]
      BY <2>1 DEF Writing, Late
    <3>. QED BY <1>0, <2>1, <3>1 DEF Streams
  <2>. QED BY <2>2, <2>3
<1>5. ASSUME NEW d \in Launchers, Test(d) PROVE OneDump' /\ Streams' /\ Ends'
  <2>1. CASE dumpInProgress
    <3>1. /\ \A o \in Launchers : dumper'[o] = IF o = d THEN "refused" ELSE dumper[o]
          /\ dumper[d] = "testAndSet"
          /\ UNCHANGED <<alive, outputStream, xml_depth, conn>> /\ dumpInProgress'
      BY <1>0, <1>5, <2>1 DEF Test, dumpTo, Types
    <3>2. OneDump' /\ Ends'
      BY <1>0, <3>1 DEF OneDump, Ends, Writing, Late
    <3>3. Streams'
      BY <1>0, <3>1 DEF Streams, Writing, Late
    <3>. QED BY <3>2, <3>3
  <2>2. CASE ~ dumpInProgress
    <3>1. /\ \A o \in Launchers : dumper'[o] = IF o = d THEN "gc" ELSE dumper[o]
          /\ dumper[d] = "testAndSet" /\ outputStream' = "stdout"
          /\ UNCHANGED <<alive, xml_depth, conn>> /\ dumpInProgress'
      BY <1>0, <1>5, <2>2 DEF Test, dumpTo, Types
    <3>2. \A o \in Launchers : dumper[o] \notin {"gc", "connect", "finish"} \cup Writing
      BY <1>0, <2>2 DEF OneDump
    <3>3. OneDump' /\ Ends'
      BY <1>0, <3>1, <3>2 DEF OneDump, Ends, Writing, Late
    <3>4. Streams'
      BY <1>0, <3>1, <3>2 DEF Streams, Writing, Late
    <3>. QED BY <3>3, <3>4
  <2>. QED BY <2>1, <2>2
<1>6. ASSUME NEW d \in Launchers, dumper[d] \in {"gc", "connect", "finish"} \cup Writing
      PROVE  dumpInProgress /\ \A o \in Launchers \ {d} :
                                 dumper[o] \notin {"gc", "connect", "finish"} \cup Writing
  BY <1>0, <1>6 DEF OneDump
<1>7. ASSUME NEW d \in Launchers, RunGC(d) PROVE OneDump' /\ Streams' /\ Ends'
  <2>1. /\ \A o \in Launchers : dumper'[o] = IF o = d THEN "connect" ELSE dumper[o]
        /\ dumper[d] = "gc"
        /\ UNCHANGED <<alive, dumpInProgress, outputStream, xml_depth, conn>>
    BY <1>0, <1>7 DEF RunGC, dumpTo, Types
  <2>2. OneDump' /\ Ends'
    BY <1>0, <1>6, <2>1 DEF OneDump, Ends, Writing, Late
  <2>3. Streams'
    BY <1>0, <1>6, <2>1 DEF Streams, Writing, Late
  <2>. QED BY <2>2, <2>3
<1>8. ASSUME NEW d \in Launchers, establish_connection(d) PROVE OneDump' /\ Streams' /\ Ends'
  <2>1. /\ \A o \in Launchers : dumper'[o] = IF o = d THEN "begin" ELSE dumper[o]
        /\ \A o \in Launchers \ {d} : conn'[o] = conn[o]
        /\ \/ conn'[d] = "open" /\ outputStream' \in {d, "null"}
           \/ conn'[d] = "failed" /\ outputStream' = outputStream
        /\ dumper[d] = "connect" /\ alive /\ xml_depth' = 0 /\ UNCHANGED <<alive, dumpInProgress>>
    BY <1>0, <1>8 DEF establish_connection, dumpTo, Types
  <2>2. OneDump' /\ Ends'
    BY <1>0, <1>6, <2>1 DEF OneDump, Ends, Writing, Late
  <2>3. outputStream = "stdout"
    BY <1>0, <2>1 DEF Streams
  <2>4. Len(Nesting("begin")) = 0
    BY EmptySeq DEF Nesting
  <2>5. \A o \in Launchers : o # d => dumper'[o] \notin {"gc", "connect"} \cup Writing
    BY <1>6, <2>1
  <2>6. Streams'
    BY <2>1, <2>3, <2>4, <2>5 DEF Streams, Writing, Late
  <2>. QED BY <2>2, <2>6
<1>9. ASSUME NEW d \in Launchers, NEW from, NEW next, NEW kind, NEW tag,
             Writes(d, from, next, kind, tag)
      PROVE  OneDump' /\ Streams' /\ Ends'
  <2>1. /\ \A o \in Launchers : dumper'[o] = IF o = d THEN next ELSE dumper[o]
        /\ dumper[d] = from /\ from \in Writing /\ next \in Writing \ {"begin"} /\ alive
        /\ UNCHANGED <<alive, dumpInProgress, outputStream, conn>>
    BY <1>0, <1>9 DEF Writes, Write, dumpTo, Types, Lines, Writing, Late
  <2>2. OneDump' /\ Ends'
    BY <1>0, <1>6, <2>1 DEF OneDump, Ends, Writing, Late
  <2>3. xml_depth' = Len(Nesting(next))
    <3>. DEFINE e == [by |-> d, kind |-> kind, tag |-> tag]
    <3>1. e.kind = kind /\ e.tag = tag
      OBVIOUS
    <3>. HIDE DEF e
    <3>2. /\ kind = "open" => Len(Nesting(next)) = Len(Nesting(from)) + 1
          /\ kind = "close" => Len(Nesting(next)) = Len(Nesting(from)) - 1
          /\ kind \in {"complete", "text"} => Len(Nesting(next)) = Len(Nesting(from))
      BY <1>9, <3>1, LinesNest DEF Writes
    <3>3. xml_depth = Len(Nesting(from))
      BY <1>0, <2>1 DEF Streams
    <3>4. kind \in {"open", "close", "complete", "text"}
      BY <1>9 DEF Writes, Lines
    <3>. QED BY <1>9, <3>2, <3>3, <3>4 DEF Writes
  <2>4. outputStream # "null"
    BY <1>9 DEF Writes, myPrintf
  <2>5. \A o \in Launchers : o # d => dumper'[o] \notin {"gc", "connect"} \cup Writing
    BY <1>6, <2>1
  <2>6. outputStream \in (IF conn[d] = "failed" THEN {"stdout"} ELSE {d})
    BY <1>0, <2>1, <2>4 DEF Streams
  <2>7. Streams'
    BY <2>1, <2>3, <2>5, <2>6 DEF Streams, Writing, Late
  <2>. QED BY <2>2, <2>7
<1>10. ASSUME NEW d \in Launchers, Search(d) PROVE OneDump' /\ Streams' /\ Ends'
  <2>1. /\ \A o \in Launchers : dumper'[o] = IF o = d THEN "leak" ELSE dumper[o]
        /\ dumper[d] = "search" /\ alive
        /\ UNCHANGED <<alive, dumpInProgress, outputStream, xml_depth, conn>>
    BY <1>0, <1>10 DEF Search, dumpTo, Types
  <2>2. OneDump' /\ Ends'
    BY <1>0, <1>6, <2>1 DEF OneDump, Ends, Writing, Late
  <2>3. Nesting("leak") = Nesting("search")
    BY DEF Nesting
  <2>4. \A o \in Launchers : o # d => dumper'[o] \notin {"gc", "connect"} \cup Writing
    BY <1>6, <2>1 DEF Writing, Late
  <2>5. Streams'
    BY <1>0, <2>1, <2>3, <2>4 DEF Streams, Writing, Late
  <2>. QED BY <2>2, <2>5
<1>11. CASE EndTarget
  <2>1. /\ \A o \in Launchers : conn'[o] = IF conn[o] = "open" THEN "closed" ELSE conn[o]
        /\ ~ alive' /\ UNCHANGED <<dumper, dumpInProgress, outputStream, xml_depth>>
    BY <1>11 DEF EndTarget
  <2>2. OneDump' /\ Ends'
    BY <1>0, <2>1 DEF OneDump, Ends
  <2>3. \A o \in Launchers : conn'[o] = "failed" <=> conn[o] = "failed"
    BY <2>1
  <2>4. Streams'
    BY <1>0, <2>1, <2>3 DEF Streams
  <2>. QED BY <2>2, <2>4
<1>12. ASSUME NEW d \in Launchers, close_connection(d) PROVE OneDump' /\ Streams' /\ Ends'
  <2>1. /\ \A o \in Launchers : dumper'[o] = IF o = d THEN "finish" ELSE dumper[o]
        /\ dumper[d] = "close" /\ alive
        /\ conn' = IF outputStream # "stdout" /\ conn[outputStream] = "open"
                   THEN [conn EXCEPT ![outputStream] = "closed"] ELSE conn
        /\ UNCHANGED <<alive, dumpInProgress>>
    BY <1>0, <1>12 DEF close_connection, dumpTo, Types
  <2>2. \A o \in Launchers : o # d => dumper'[o] \notin {"gc", "connect"} \cup Writing
    BY <1>6, <2>1 DEF Writing, Late
  <2>3. outputStream = IF conn[d] = "failed" THEN "stdout" ELSE d
    BY <1>0, <2>1 DEF Streams, Writing, Late
  <2>4. \A o \in Launchers : conn'[o] = IF o = d /\ conn[d] = "open" THEN "closed" ELSE conn[o]
    BY <1>0, <2>1, <2>3, ConstantsAssumption DEF Types
  <2>5. OneDump'
    BY <1>0, <1>6, <2>1 DEF OneDump, Writing, Late
  <2>6. Ends'
    BY <1>0, <2>1, <2>4 DEF Ends, Writing, Late
  <2>7. Streams'
    BY <2>1, <2>2 DEF Streams, Writing, Late
  <2>. QED BY <2>5, <2>6, <2>7
<1>13. ASSUME NEW d \in Launchers, Finish(d) PROVE OneDump' /\ Streams' /\ Ends'
  <2>1. /\ \A o \in Launchers : dumper'[o] = IF o = d THEN "done" ELSE dumper[o]
        /\ dumper[d] = "finish"
        /\ UNCHANGED <<alive, outputStream, xml_depth, conn>>
    BY <1>0, <1>13 DEF Finish, dumpTo, Types
  <2>2. \A o \in Launchers : dumper'[o] \notin {"gc", "connect", "finish"} \cup Writing
    BY <1>6, <2>1 DEF Writing, Late
  <2>3. OneDump' /\ Streams'
    BY <2>2 DEF OneDump, Streams
  <2>4. Ends'
    BY <1>0, <2>1 DEF Ends, Writing, Late
  <2>. QED BY <2>3, <2>4
<1>. QED BY <1>0, <1>1, <1>2, <1>3, <1>4, <1>5, <1>7, <1>8, <1>9, <1>10, <1>11, <1>12, <1>13,
            StepKinds
-----------------------------------------------------------------------------
(* Where a line of a report goes.                                           *)
LEMMA WhereLinesGo ==
  ASSUME SessionInv, NEW d \in Launchers, NEW from, NEW next, NEW kind, NEW tag,
         Writes(d, from, next, kind, tag)
  PROVE  LET e == [by |-> d, kind |-> kind, tag |-> tag]
         IN  /\ e \in Element
             /\ \/ conn[d] = "failed" /\ console' = Append(console, e) /\ UNCHANGED channel
                \/ conn[d] = "open" /\ UNCHANGED console
                   /\ channel' = [channel EXCEPT ![d] = Append(@, e)]
                \/ conn[d] = "reset" /\ UNCHANGED <<console, channel>>
             /\ dumper[d] = from /\ dumper' = [dumper EXCEPT ![d] = next]
             /\ UNCHANGED <<main, server, peer, backlog, printed, attaching, alive, conn, to>>
<1>. DEFINE e == [by |-> d, kind |-> kind, tag |-> tag]
<1>1. e \in Element
  BY DEF Writes, Lines, Element
<1>2. /\ dumper[d] = from /\ alive /\ dumper' = [dumper EXCEPT ![d] = next] /\ outputStream # "null"
      /\ UNCHANGED <<main, server, peer, backlog, printed, attaching, alive, conn, to>>
  BY DEF Writes, Write, myPrintf, dumpTo, dumpVars, launcherVars, attachVars
<1>3. from \in Writing /\ from \in Late
  BY DEF Writes, Lines, Writing, Late
<1>4. /\ outputStream = IF conn[d] = "failed" THEN "stdout" ELSE d
      /\ conn[d] \in {"failed", "open", "reset"}
  BY <1>2, <1>3 DEF SessionInv, DumpInv, Streams, Ends, NetInv, Types, Writing
<1>5. \/ conn[d] = "failed" /\ console' = Append(console, e) /\ UNCHANGED channel
      \/ conn[d] = "open" /\ UNCHANGED console
         /\ channel' = [channel EXCEPT ![d] = Append(@, e)]
      \/ conn[d] = "reset" /\ UNCHANGED <<console, channel>>
  BY <1>4, ConstantsAssumption DEF Writes, myPrintf
<1>. QED BY <1>1, <1>2, <1>5

(* Who is in a queue.                                                       *)
LEMMA AppendMembers ==
  ASSUME NEW s \in Seq(Launchers), NEW x \in Launchers
  PROVE  {s[i] : i \in DOMAIN s} \cup {x} \subseteq
           {Append(s, x)[i] : i \in DOMAIN Append(s, x)}
<1>1. Len(s) \in Nat /\ DOMAIN s = 1 .. Len(s)
  BY LenProperties
<1>2. /\ Append(s, x) \in Seq(Launchers) /\ Len(Append(s, x)) = Len(s) + 1
      /\ \A i \in 1 .. Len(s) : Append(s, x)[i] = s[i]
      /\ Append(s, x)[Len(s) + 1] = x
  BY PushFacts
<1>3. DOMAIN Append(s, x) = 1 .. Len(s) + 1
  BY <1>2, LenProperties
<1>4. \A i \in DOMAIN s : i \in DOMAIN Append(s, x) /\ Append(s, x)[i] = s[i]
  BY <1>1, <1>2, <1>3
<1>5. Len(s) + 1 \in DOMAIN Append(s, x)
  BY <1>1, <1>3
<1>. QED BY <1>2, <1>4, <1>5

LEMMA TailMembers ==
  ASSUME NEW s \in Seq(Launchers), s # << >>
  PROVE  {s[i] : i \in DOMAIN s} \subseteq {Head(s)} \cup {Tail(s)[i] : i \in DOMAIN Tail(s)}
<1>1. Len(s) \in Nat /\ DOMAIN s = 1 .. Len(s)
  BY LenProperties
<1>2. /\ Head(s) = s[1] /\ Tail(s) \in Seq(Launchers) /\ Len(Tail(s)) = Len(s) - 1
      /\ \A j \in 1 .. Len(Tail(s)) : Tail(s)[j] = s[j + 1]
  BY HeadTailProperties
<1>3. DOMAIN Tail(s) = 1 .. Len(s) - 1
  BY <1>2, LenProperties
<1>4. \A i \in DOMAIN s : i = 1 \/ (i - 1 \in DOMAIN Tail(s) /\ Tail(s)[i - 1] = s[i])
  BY <1>1, <1>2, <1>3
<1>. QED BY <1>2, <1>4

LEMMA LinesInit == Init => LinesInv
<1>. SUFFICES ASSUME Init PROVE LinesInv
  OBVIOUS
<1>1. ASSUME NEW l \in Launchers
      PROVE  /\ peer[l] = None /\ printed[l] = << >> /\ server[l] # "ended"
             /\ conn[l] \notin {"open", "closed"} /\ channel[l] = << >>
  BY DEF Init
<1>2. ASSUME NEW d \in Launchers PROVE OnConsole(d) = << >>
  <2>1. << >> \in Seq(Element)
    BY EmptySeq
  <2>2. LinesOf(d, << >>) = << >>
    BY <2>1, LinesOfFacts
  <2>3. console = << >>
    BY DEF Init
  <2>. QED BY <2>2, <2>3 DEF OnConsole
<1>3. Holds
  BY <1>1, Zenon DEF Holds
<1>4. Arrives
  BY <1>1, <1>2, Zenon DEF Arrives
<1>. QED BY <1>3, <1>4 DEF LinesInv

LEMMA HoldsStep == SessionInv /\ [Next]_vars => Holds'
<1>. SUFFICES ASSUME SessionInv, [Next]_vars PROVE Holds'
  OBVIOUS
<1>0. DataTypes /\ Types /\ Ends /\ ConnectsOnce /\ StartsOnce /\ Peers /\ Queues /\ Holds
  BY DEF SessionInv, DumpInv, NetInv, LinesInv
<1>. USE DEF serverTo, mainTo, launcherVars, attachVars, netVars, xmlVars, dumpVars
<1>1. ASSUME NEW l \in Launchers,
             Launch(l) \/ Load(l) \/ LoadBreaks(l) \/ StartServer(l) \/ AcceptTimesOut(l)
             \/ EndOfStream(l)
      PROVE  Holds'
  <2>1. /\ \A o \in Launchers \ {l} : server'[o] = server[o]
        /\ UNCHANGED <<peer, printed, conn, channel>>
    BY <1>0, <1>1 DEF Launch, Load, LoadBreaks, StartServer, AcceptTimesOut, EndOfStream, Types
  <2>2. \/ server'[l] = server[l]
        \/ peer[l] = None /\ server'[l] # "ended"
        \/ /\ server'[l] = "ended" /\ server[l] = "reading" /\ peer[l] # None
           /\ conn[peer[l]] = "closed" /\ channel[peer[l]] = << >>
    <3>1. server[l] \notin {"accepted", "reading", "ended", "killed"} => peer[l] = None
      BY <1>0 DEF Peers
    <3>2. server[l] = "reading" => peer[l] # None
      BY <1>0 DEF Peers
    <3>. QED BY <1>0, <1>1, <3>1, <3>2
         DEF Launch, Load, LoadBreaks, StartServer, AcceptTimesOut, EndOfStream, Types, StartsOnce
  <2>. QED BY <1>0, <2>1, <2>2 DEF Holds
<1>2. ASSUME NEW l \in Launchers, Accept(l) PROVE Holds'
  <2>. DEFINE d == Head(backlog[l])
  <2>1. d \in InBacklog(l) /\ d \in Launchers
    BY <1>0, <1>2, TailFacts DEF Accept, Types, Queues, InBacklog
  <2>2. conn[d] \in {"open", "closed"}
    BY <1>0, <2>1 DEF Queues, Queued
  <2>3. /\ server'[l] = "accepted" /\ peer'[l] = d
        /\ \A o \in Launchers \ {l} : server'[o] = server[o] /\ peer'[o] = peer[o]
        /\ UNCHANGED <<printed, conn, channel>>
    BY <1>0, <1>2 DEF Accept, Types
  <2>. QED BY <1>0, <2>1, <2>2, <2>3, ConstantsAssumption DEF Holds
<1>3. ASSUME NEW l \in Launchers, ReadLine(l) PROVE Holds'
  <2>1. /\ server[l] = "reading" /\ peer[l] # None /\ peer[l] \in Launchers
        /\ \A o \in Launchers \ {l} : printed'[o] = printed[o]
        /\ \A o \in Launchers \ {peer[l]} : channel'[o] = channel[o]
        /\ UNCHANGED <<server, peer, conn>>
    BY <1>0, <1>3 DEF ReadLine, Types, DataTypes, Peers
  <2>2. \A o \in Launchers \ {l} : peer[o] # None => peer[o] # peer[l] /\ peer[o] \in Launchers
    BY <1>0, <2>1 DEF Peers, Types
  <2>. QED BY <1>0, <2>1, <2>2 DEF Holds
<1>4. ASSUME NEW l \in Launchers, CloseServerSocket(l) \/ GiveUp(l) \/ Kill(l) PROVE Holds'
  <2>1. PICK lost \in SUBSET Launchers :
          /\ ResetConnections(l, lost)
          /\ \A d \in lost : to[d] = l /\ (peer[l] # d \/ server'[l] = "killed")
                             /\ conn[d] \in {"open", "closed"}
          /\ server[l] \in {"accepted", "reading"} =>
               server'[l] = "reading" \/ (server'[l] = "killed" /\ peer[l] \in lost)
          /\ server[l] = "ended" <=> server'[l] = "ended"
          /\ server[l] = "killed" => server'[l] = "killed"
          /\ \A o \in Launchers \ {l} : server'[o] = server[o]
          /\ UNCHANGED <<peer, printed>>
    BY <1>4, LostWereOpen
  <2>2. \A d \in Launchers : /\ conn'[d] = IF d \in lost THEN "reset" ELSE conn[d]
                             /\ channel'[d] = IF d \in lost THEN << >> ELSE channel[d]
    BY <2>1 DEF ResetConnections
  <2>3. ASSUME NEW o \in Launchers, peer[o] = None
        PROVE  printed'[o] = << >> /\ server'[o] # "ended"
    BY <1>0, <2>1, <2>3 DEF Holds
  <2>4. ASSUME NEW o \in Launchers, peer[o] # None
        PROVE  /\ server'[o] = "ended" => conn'[peer[o]] = "closed" /\ channel'[peer[o]] = << >>
               /\ server'[o] = "killed" => conn'[peer[o]] = "reset"
               /\ server'[o] \notin {"ended", "killed"} => conn'[peer[o]] \in {"open", "closed"}
    <3>1. /\ peer[o] \in Launchers /\ to[peer[o]] = o
          /\ server[o] \in {"accepted", "reading", "ended", "killed"}
      BY <1>0, <2>4 DEF Peers, Types
    <3>2. CASE o # l
      <4>1. peer[o] \notin lost /\ server'[o] = server[o]
        BY <2>1, <3>1, <3>2
      <4>. QED BY <1>0, <2>2, <2>4, <3>1, <4>1 DEF Holds
    <3>3. CASE o = l /\ server[l] \in {"accepted", "reading"}
      <4>1. CASE server'[l] = "reading"
        <5>1. peer[l] \notin lost
          BY <2>1, <4>1
        <5>. QED BY <1>0, <2>2, <2>4, <3>1, <3>3, <4>1, <5>1 DEF Holds
      <4>2. CASE server'[l] = "killed" /\ peer[l] \in lost
        BY <2>2, <3>1, <3>3, <4>2
      <4>. QED BY <2>1, <3>3, <4>1, <4>2
    <3>4. CASE o = l /\ server[l] = "ended"
      <4>1. server'[l] = "ended" /\ peer[l] \notin lost
        BY <2>1, <3>4
      <4>. QED BY <1>0, <2>2, <2>4, <3>1, <3>4, <4>1 DEF Holds
    <3>5. CASE o = l /\ server[l] = "killed"
      <4>1. server'[l] = "killed" /\ conn[peer[l]] = "reset"
        BY <1>0, <2>1, <2>4, <3>5 DEF Holds
      <4>. QED BY <2>2, <3>1, <3>5, <4>1
    <3>. QED BY <3>1, <3>2, <3>3, <3>4, <3>5
  <2>5. UNCHANGED peer
    BY <2>1
  <2>. QED BY <2>3, <2>4, <2>5 DEF Holds
<1>5. CASE UNCHANGED <<server, peer, printed, conn, channel>>
  BY <1>0, <1>5 DEF Holds
<1>6. ASSUME NEW d \in Launchers, establish_connection(d) PROVE Holds'
  <2>1. /\ \A o \in Launchers \ {d} : conn'[o] = conn[o]
        /\ conn[d] = "none" /\ UNCHANGED <<server, peer, printed, channel>>
    BY <1>0, <1>6 DEF establish_connection, Types, ConnectsOnce, Early
  <2>2. \A o \in Launchers : peer[o] # None => peer[o] \in Launchers \ {d}
    BY <1>0, <2>1 DEF Peers, Types
  <2>. QED BY <1>0, <2>1, <2>2 DEF Holds
<1>7. ASSUME NEW d \in Launchers, NEW from, NEW next, NEW kind, NEW tag,
             Writes(d, from, next, kind, tag)
      PROVE  Holds'
  <2>1. /\ UNCHANGED <<server, peer, printed, conn>>
        /\ \A o \in Launchers : channel'[o] = channel[o] \/ conn[o] = "open"
    <3>. DEFINE e == [by |-> d, kind |-> kind, tag |-> tag]
    <3>1. /\ \/ UNCHANGED channel
             \/ conn[d] = "open" /\ channel' = [channel EXCEPT ![d] = Append(@, e)]
          /\ UNCHANGED <<server, peer, printed, conn>>
      BY <1>7, WhereLinesGo
    <3>. HIDE DEF e
    <3>. QED BY <1>0, <3>1 DEF DataTypes
  <2>2. \A o \in Launchers : peer[o] # None => peer[o] \in Launchers
    BY <1>0 DEF Types
  <2>. QED BY <1>0, <2>1, <2>2 DEF Holds
<1>8. CASE EndTarget \/ \E d \in Launchers : close_connection(d)
  <2>1. /\ UNCHANGED <<server, peer, printed, channel>>
        /\ \A o \in Launchers : conn'[o] = conn[o] \/ (conn[o] = "open" /\ conn'[o] = "closed")
    BY <1>0, <1>8 DEF EndTarget, close_connection, Types
  <2>2. \A o \in Launchers : peer[o] # None => peer[o] \in Launchers
    BY <1>0 DEF Types
  <2>. QED BY <1>0, <2>1, <2>2 DEF Holds
<1>9. ASSUME NEW d \in Launchers, Test(d) \/ RunGC(d) \/ Search(d) \/ Finish(d)
      PROVE  UNCHANGED <<server, peer, printed, conn, channel>>
  BY <1>9 DEF Test, RunGC, Search, Finish
<1>10. ResetOptions \/ ParseOptions \/ EndAttach \/ UNCHANGED vars =>
         UNCHANGED <<server, peer, printed, conn, channel>>
  BY DEF ResetOptions, ParseOptions, EndAttach, vars
<1>. QED BY <1>0, <1>1, <1>2, <1>3, <1>4, <1>5, <1>6, <1>7, <1>8, <1>9, <1>10, StepKinds

LEMMA ArrivesStep == SessionInv /\ [Next]_vars => Arrives'
<1>. SUFFICES ASSUME SessionInv, [Next]_vars PROVE Arrives'
  OBVIOUS
<1>0. DataTypes /\ Types /\ Ends /\ ConnectsOnce /\ Peers /\ Queues /\ Holds /\ Arrives
  BY DEF SessionInv, DumpInv, NetInv, LinesInv
<1>. USE DEF serverTo, mainTo, launcherVars, attachVars, netVars, xmlVars, dumpVars
<1>1. CASE UNCHANGED <<peer, backlog, conn, to, channel, console>>
  <2>1. \A d \in Launchers : OnConsole(d)' = OnConsole(d)
    BY <1>1 DEF OnConsole
  <2>2. \A l \in Launchers : InBacklog(l)' = InBacklog(l)
    BY <1>1 DEF InBacklog
  <2>. QED BY <1>0, <1>1, <2>1, <2>2 DEF Arrives
<1>2. ASSUME NEW l \in Launchers, Accept(l) PROVE Arrives'
  <2>1. backlog[l] \in Seq(Launchers) /\ backlog[l] # << >>
    BY <1>0, <1>2 DEF Accept, Types
  <2>2. peer[l] = None
    BY <1>0, <1>2 DEF Accept, Peers
  <2>3. /\ peer'[l] = Head(backlog[l]) /\ backlog'[l] = Tail(backlog[l])
        /\ \A o \in Launchers \ {l} : backlog'[o] = backlog[o] /\ peer'[o] = peer[o]
        /\ UNCHANGED <<conn, to, channel, console>>
    BY <1>0, <1>2 DEF Accept, Types
  <2>4. \A d \in InBacklog(l) : d = peer'[l] \/ d \in InBacklog(l)'
    BY <2>1, <2>3, TailMembers DEF InBacklog
  <2>5. \A o \in Launchers \ {l} : InBacklog(o)' = InBacklog(o)
    BY <2>3 DEF InBacklog
  <2>6. ASSUME NEW d \in Launchers, conn'[d] \in {"open", "closed"},
               NEW o \in Launchers, to'[d] = o
        PROVE  peer'[o] = d \/ d \in InBacklog(o)'
    <3>1. peer[o] = d \/ d \in InBacklog(o)
      BY <1>0, <2>3, <2>6 DEF Arrives
    <3>2. CASE o = l
      BY <2>2, <2>4, <3>1, <3>2, ConstantsAssumption
    <3>3. CASE o # l
      BY <2>3, <2>5, <3>1, <3>3
    <3>. QED BY <3>2, <3>3
  <2>7. ASSUME NEW d \in Launchers
        PROVE  /\ conn'[d] \in {"none", "failed", "reset"} => channel'[d] = << >>
               /\ conn'[d] # "failed" => OnConsole(d)' = << >>
    BY <1>0, <2>3 DEF Arrives, OnConsole
  <2>. QED BY <2>6, <2>7 DEF Arrives
<1>3. ASSUME NEW l \in Launchers, ReadLine(l) PROVE Arrives'
  <2>1. /\ peer[l] \in Launchers /\ conn[peer[l]] \in {"open", "closed"}
        /\ \A o \in Launchers \ {peer[l]} : channel'[o] = channel[o]
        /\ UNCHANGED <<peer, backlog, conn, to, console>>
    BY <1>0, <1>3 DEF ReadLine, Types, DataTypes, Peers, Holds
  <2>2. \A d \in Launchers : OnConsole(d)' = OnConsole(d)
    BY <2>1 DEF OnConsole
  <2>3. \A o \in Launchers : InBacklog(o)' = InBacklog(o)
    BY <2>1 DEF InBacklog
  <2>. QED BY <1>0, <2>1, <2>2, <2>3 DEF Arrives
<1>4. ASSUME NEW l \in Launchers, CloseServerSocket(l) \/ GiveUp(l) \/ Kill(l) PROVE Arrives'
  <2>1. PICK lost \in SUBSET Launchers :
          /\ ResetConnections(l, lost) /\ InBacklog(l) \subseteq lost
          /\ \A d \in lost : conn[d] \in {"open", "closed"}
          /\ UNCHANGED <<peer, console>>
    BY <1>4, LostWereOpen
  <2>2. /\ \A d \in Launchers : /\ conn'[d] = IF d \in lost THEN "reset" ELSE conn[d]
                                /\ channel'[d] = IF d \in lost THEN << >> ELSE channel[d]
        /\ to' = to /\ \A o \in Launchers \ {l} : backlog'[o] = backlog[o]
    BY <1>0, <2>1 DEF ResetConnections, Types
  <2>3. \A d \in Launchers : OnConsole(d)' = OnConsole(d)
    BY <2>1 DEF OnConsole
  <2>4. ASSUME NEW d \in Launchers, conn'[d] \in {"open", "closed"},
               NEW o \in Launchers, to'[d] = o
        PROVE  peer'[o] = d \/ d \in InBacklog(o)'
    <3>1. d \notin lost /\ conn[d] \in {"open", "closed"}
      BY <2>2, <2>4
    <3>2. peer[o] = d \/ d \in InBacklog(o)
      BY <1>0, <2>2, <2>4, <3>1 DEF Arrives
    <3>3. CASE peer[o] = d
      BY <2>1, <3>3
    <3>4. CASE d \in InBacklog(o)
      <4>1. o # l
        BY <2>1, <3>1, <3>4
      <4>2. InBacklog(o)' = InBacklog(o)
        BY <2>2, <4>1 DEF InBacklog
      <4>. QED BY <3>4, <4>2
    <3>. QED BY <3>2, <3>3, <3>4
  <2>5. ASSUME NEW d \in Launchers
        PROVE  /\ conn'[d] \in {"none", "failed", "reset"} => channel'[d] = << >>
               /\ conn'[d] # "failed" => OnConsole(d)' = << >>
    <3>1. CASE d \in lost
      BY <1>0, <2>1, <2>2, <2>3, <3>1 DEF Arrives
    <3>2. CASE d \notin lost
      BY <1>0, <2>2, <2>3, <3>2 DEF Arrives
    <3>. QED BY <3>1, <3>2
  <2>. QED BY <2>4, <2>5 DEF Arrives
<1>5. ASSUME NEW d \in Launchers, establish_connection(d) PROVE Arrives'
  <2>1. /\ conn[d] = "none"
        /\ \A o \in Launchers \ {d} : conn'[o] = conn[o] /\ to'[o] = to[o]
        /\ to'[d] = tcp_port
        /\ \/ /\ conn'[d] = "open" /\ tcp_port \in Launchers
              /\ backlog' = [backlog EXCEPT ![tcp_port] = Append(@, d)]
           \/ conn'[d] = "failed" /\ backlog' = backlog
        /\ UNCHANGED <<peer, channel, console>>
    BY <1>0, <1>5 DEF establish_connection, Types, ConnectsOnce, Early
  <2>2. \A o \in Launchers : OnConsole(o)' = OnConsole(o)
    BY <2>1 DEF OnConsole
  <2>3. ASSUME NEW o \in Launchers
        PROVE  /\ InBacklog(o) \subseteq InBacklog(o)'
               /\ conn'[d] = "open" /\ o = tcp_port => d \in InBacklog(o)'
    <3>1. InBacklog(o) \cup {d} \subseteq
            {Append(backlog[o], d)[i] : i \in DOMAIN Append(backlog[o], d)}
      <4>1. backlog[o] \in Seq(Launchers)
        BY <1>0 DEF Types
      <4>. QED BY <4>1, AppendMembers DEF InBacklog
    <3>2. CASE conn'[d] = "open" /\ o = tcp_port
      <4>1. backlog'[o] = Append(backlog[o], d)
        BY <1>0, <2>1, <3>2 DEF Types
      <4>. QED BY <3>1, <4>1 DEF InBacklog
    <3>3. CASE ~ (conn'[d] = "open" /\ o = tcp_port)
      <4>1. backlog'[o] = backlog[o]
        BY <1>0, <2>1, <3>3 DEF Types
      <4>. QED BY <3>3, <4>1 DEF InBacklog
    <3>. QED BY <3>2, <3>3
  <2>4. ASSUME NEW o \in Launchers, conn'[o] \in {"open", "closed"},
               NEW l \in Launchers, to'[o] = l
        PROVE  peer'[l] = o \/ o \in InBacklog(l)'
    <3>1. CASE o = d
      BY <2>1, <2>3, <2>4, <3>1
    <3>2. CASE o # d
      <4>1. peer[l] = o \/ o \in InBacklog(l)
        BY <1>0, <2>1, <2>4, <3>2 DEF Arrives
      <4>. QED BY <2>1, <2>3, <4>1
    <3>. QED BY <3>1, <3>2
  <2>5. ASSUME NEW o \in Launchers
        PROVE  /\ conn'[o] \in {"none", "failed", "reset"} => channel'[o] = << >>
               /\ conn'[o] # "failed" => OnConsole(o)' = << >>
    BY <1>0, <2>1, <2>2 DEF Arrives
  <2>. QED BY <2>4, <2>5 DEF Arrives
<1>6. ASSUME NEW d \in Launchers, NEW from, NEW next, NEW kind, NEW tag,
             Writes(d, from, next, kind, tag)
      PROVE  Arrives'
  <2>. DEFINE e == [by |-> d, kind |-> kind, tag |-> tag]
  <2>1. /\ e \in Element
        /\ \/ conn[d] = "failed" /\ console' = Append(console, e) /\ UNCHANGED channel
           \/ conn[d] = "open" /\ UNCHANGED console /\ channel' = [channel EXCEPT ![d] = Append(@, e)]
           \/ conn[d] = "reset" /\ UNCHANGED <<console, channel>>
        /\ UNCHANGED <<peer, backlog, conn, to>>
    BY <1>6, WhereLinesGo
  <2>2. e.by = d
    OBVIOUS
  <2>. HIDE DEF e
  <2>3. \A o \in Launchers : channel'[o] = channel[o] \/ conn[o] = "open"
    BY <1>0, <2>1 DEF DataTypes
  <2>4. \A o \in Launchers : OnConsole(o)' = OnConsole(o) \/ conn[o] = "failed"
    <3>1. CASE UNCHANGED console
      BY <3>1 DEF OnConsole
    <3>2. CASE conn[d] = "failed" /\ console' = Append(console, e)
      <4>1. ASSUME NEW o \in Launchers, o # d PROVE LinesOf(o, console') = LinesOf(o, console)
        <5>1. LinesOf(o, console') = WithLine(o, LinesOf(o, console), e)
          BY <1>0, <2>1, <3>2, LinesOfFacts DEF DataTypes
        <5>. QED BY <2>2, <4>1, <5>1 DEF WithLine
      <4>. QED BY <3>2, <4>1 DEF OnConsole
    <3>. QED BY <2>1, <3>1, <3>2
  <2>5. \A l \in Launchers : InBacklog(l)' = InBacklog(l)
    BY <2>1 DEF InBacklog
  <2>. QED BY <1>0, <2>1, <2>3, <2>4, <2>5 DEF Arrives
<1>7. CASE EndTarget \/ \E d \in Launchers : close_connection(d)
  <2>1. /\ UNCHANGED <<peer, backlog, to, channel, console>>
        /\ \A o \in Launchers : conn'[o] = conn[o] \/ (conn[o] = "open" /\ conn'[o] = "closed")
    BY <1>0, <1>7 DEF EndTarget, close_connection, Types
  <2>2. \A o \in Launchers : OnConsole(o)' = OnConsole(o)
    BY <2>1 DEF OnConsole
  <2>3. \A l \in Launchers : InBacklog(l)' = InBacklog(l)
    BY <2>1 DEF InBacklog
  <2>. QED BY <1>0, <2>1, <2>2, <2>3 DEF Arrives
<1>8. ASSUME NEW l \in Launchers,
             Launch(l) \/ Load(l) \/ LoadBreaks(l) \/ StartServer(l) \/ AcceptTimesOut(l)
             \/ EndOfStream(l)
      PROVE  UNCHANGED <<peer, backlog, conn, to, channel, console>>
  BY <1>8 DEF Launch, Load, LoadBreaks, StartServer, AcceptTimesOut, EndOfStream
<1>9. ASSUME NEW d \in Launchers, Test(d) \/ RunGC(d) \/ Search(d) \/ Finish(d)
      PROVE  UNCHANGED <<peer, backlog, conn, to, channel, console>>
  BY <1>9 DEF Test, RunGC, Search, Finish
<1>10. ResetOptions \/ ParseOptions \/ EndAttach \/ UNCHANGED vars =>
         UNCHANGED <<peer, backlog, conn, to, channel, console>>
  BY DEF ResetOptions, ParseOptions, EndAttach, vars
<1>. QED BY <1>0, <1>1, <1>2, <1>3, <1>4, <1>5, <1>6, <1>7, <1>8, <1>9, <1>10, StepKinds
-----------------------------------------------------------------------------
(* Nothing is written, taken or lost.                                       *)
LEMMA TextsRest ==
  ASSUME SessionInv, UNCHANGED <<peer, printed, channel, console, to>>,
         \A d \in Launchers :
           /\ conn'[d] = conn[d] \/ (conn[d] = "open" /\ conn'[d] = "closed")
           /\ dumper'[d] = dumper[d] \/ conn[d] = "none"
              \/ << dumper[d], dumper'[d] >> \in
                   { << "search", "leak" >>, << "close", "finish" >>, << "finish", "done" >> }
  PROVE  Texts'
<1>. SUFFICES ASSUME NEW d \in Launchers, conn'[d] # "none"
              PROVE  /\ conn'[d] \in {"failed", "open", "closed"} =>
                          LinesBy(d, Text(d)') /\ AsFarAs(dumper'[d], Text(d)')
                     /\ conn'[d] = "reset" => PartOfReport(d, Text(d)')
  BY DEF Texts, TextRight
<1>1. /\ conn[d] \in {"failed", "open", "closed"} <=> conn'[d] \in {"failed", "open", "closed"}
      /\ conn[d] = "failed" <=> conn'[d] = "failed"
      /\ conn[d] = "reset" <=> conn'[d] = "reset"
  OBVIOUS
<1>2. Text(d)' = Text(d)
  BY <1>1 DEF Text, Taken, OnConsole
<1>3. \A s : AsFarAs(dumper[d], s) => AsFarAs(dumper'[d], s)
  <2>1. CASE dumper'[d] = dumper[d]
    BY <2>1
  <2>2. CASE dumper[d] = "search" /\ dumper'[d] = "leak"
    BY <2>2 DEF AsFarAs, Nesting
  <2>3. CASE dumper[d] \in {"close", "finish"} /\ dumper'[d] \in {"finish", "done"}
    BY <2>3 DEF AsFarAs, Nesting
  <2>. QED BY <2>1, <2>2, <2>3
<1>. QED BY <1>1, <1>2, <1>3 DEF SessionInv, Texts, TextRight

LEMMA TextIsTyped ==
  ASSUME SessionInv, NEW d \in Launchers
  PROVE  /\ Taken(d) \in Seq(Element) /\ channel[d] \in Seq(Element)
         /\ Taken(d) \o channel[d] \in Seq(Element) /\ OnConsole(d) \in Seq(Element)
<1>1. << >> \in Seq(Element)
  BY EmptySeq
<1>2. Taken(d) \in Seq(Element) /\ channel[d] \in Seq(Element)
  BY <1>1 DEF Taken, SessionInv, DumpInv, DataTypes
<1>3. OnConsole(d) \in Seq(Element)
  BY LinesOfFacts DEF OnConsole, SessionInv, DumpInv, DataTypes
<1>. QED BY <1>2, <1>3, ConcatProperties

(* Nothing is written, taken or lost of the report of one dump.             *)
LEMMA TextKept ==
  ASSUME SessionInv, NEW d \in Launchers, conn'[d] = conn[d], dumper'[d] = dumper[d],
         conn[d] # "none" => Text(d)' = Text(d)
  PROVE  TextRight(d)'
<1>1. TextRight(d)
  BY DEF SessionInv, Texts
<1>2. CASE conn[d] = "none"
  BY <1>2 DEF TextRight
<1>3. CASE conn[d] # "none"
  BY <1>1, <1>3 DEF TextRight
<1>. QED BY <1>2, <1>3

LEMMA TextsInit == Init => Texts
<1>1. ASSUME Init, NEW d \in Launchers PROVE TextRight(d)
  <2>1. conn[d] = "none"
    BY <1>1 DEF Init
  <2>. QED BY <2>1 DEF TextRight
<1>. QED BY <1>1, Zenon DEF Texts

LEMMA AcceptsText == ASSUME SessionInv, NEW l \in Launchers, Accept(l) PROVE Texts'
<1>0. Types /\ Queues /\ Peers /\ Holds
  BY DEF SessionInv, NetInv, LinesInv
<1>. DEFINE h == Head(backlog[l])
<1>1. h \in InBacklog(l) /\ h \in Launchers
  BY <1>0, TailFacts DEF Accept, Types, Queues, InBacklog
<1>2. to[h] = l
  BY <1>0, <1>1 DEF Queues, Queued
<1>3. peer[l] = None /\ printed[l] = << >>
  BY <1>0 DEF Accept, Peers, Holds
<1>4. /\ peer'[l] = h /\ \A o \in Launchers \ {l} : peer'[o] = peer[o]
      /\ UNCHANGED <<printed, conn, to, channel, console, dumper>>
  BY <1>0 DEF Accept, Types, xmlVars
<1>. HIDE DEF h
<1>5. ASSUME NEW d \in Launchers PROVE TextRight(d)'
  <2>1. Taken(d)' = Taken(d)
    <3>1. CASE to[d] # l
      BY <1>4, <3>1 DEF Taken
    <3>2. CASE to[d] = l
      <4>1. Taken(d) = << >>
        BY <1>3, <3>2, ConstantsAssumption DEF Taken
      <4>2. Taken(d)' = << >>
        BY <1>3, <1>4, <3>2 DEF Taken
      <4>. QED BY <4>1, <4>2
    <3>. QED BY <3>1, <3>2
  <2>2. Text(d)' = Text(d)
    BY <1>4, <2>1 DEF Text, OnConsole
  <2>. QED BY <1>4, <2>2, TextKept
<1>. QED BY <1>5 DEF Texts

LEMMA ReadsText == ASSUME SessionInv, NEW l \in Launchers, ReadLine(l) PROVE Texts'
<1>0. Types /\ DataTypes /\ Peers /\ Holds
  BY DEF SessionInv, NetInv, DumpInv, LinesInv
<1>1. PICK p \in Launchers : /\ p = peer[l] /\ to[p] = l /\ channel[p] # << >>
                            /\ conn[p] \in {"open", "closed"}
  BY <1>0 DEF ReadLine, Types, Peers, Holds
<1>2. /\ printed' = [printed EXCEPT ![l] = Append(@, Head(channel[p]))]
      /\ channel' = [channel EXCEPT ![p] = Tail(@)]
      /\ UNCHANGED <<peer, conn, to, console, dumper>>
  BY <1>1 DEF ReadLine, xmlVars
<1>3. p = peer[l] /\ p = peer'[l]
  BY <1>1, <1>2
<1>4. ASSUME NEW d \in Launchers PROVE TextRight(d)'
  <2>1. CASE d = p
    <3>1. Text(p) = printed[l] \o channel[p]
      BY <1>1, <1>3 DEF Text, Taken
    <3>2. Text(p)' = printed'[l] \o channel'[p]
      BY <1>1, <1>2, <1>3 DEF Text, Taken
    <3>3. printed'[l] = Append(printed[l], Head(channel[p])) /\ channel'[p] = Tail(channel[p])
      BY <1>0, <1>1, <1>2 DEF DataTypes
    <3>4. printed[l] \in Seq(Element) /\ channel[p] \in Seq(Element)
      BY <1>0, <1>1 DEF DataTypes
    <3>5. Append(printed[l], Head(channel[p])) \o Tail(channel[p]) = printed[l] \o channel[p]
      BY <1>1, <3>4, ConcatMoves
    <3>6. Text(p)' = Text(p)
      BY <3>1, <3>2, <3>3, <3>5
    <3>. QED BY <1>2, <2>1, <3>6, TextKept
  <2>2. CASE d # p
    <3>1. channel'[d] = channel[d]
      BY <1>0, <1>1, <1>2, <2>2 DEF DataTypes
    <3>2. Taken(d)' = Taken(d)
      BY <1>0, <1>2, <1>3, <2>2 DEF Taken, DataTypes
    <3>3. Text(d)' = Text(d)
      BY <1>2, <3>1, <3>2 DEF Text, OnConsole
    <3>. QED BY <1>2, <3>3, TextKept
  <2>. QED BY <2>1, <2>2
<1>. QED BY <1>4 DEF Texts

LEMMA LosesText ==
  ASSUME SessionInv, NEW l \in Launchers, CloseServerSocket(l) \/ GiveUp(l) \/ Kill(l)
  PROVE  Texts'
<1>1. PICK lost \in SUBSET Launchers :
        /\ ResetConnections(l, lost)
        /\ \A d \in lost : conn[d] \in {"open", "closed"}
        /\ UNCHANGED <<peer, printed, dumper, console>>
  BY LostWereOpen
<1>2. /\ \A d \in Launchers : /\ conn'[d] = IF d \in lost THEN "reset" ELSE conn[d]
                              /\ channel'[d] = IF d \in lost THEN << >> ELSE channel[d]
      /\ to' = to
  BY <1>1 DEF ResetConnections
<1>3. ASSUME NEW d \in Launchers PROVE TextRight(d)'
  <2>1. Taken(d)' = Taken(d)
    BY <1>1, <1>2 DEF Taken
  <2>2. CASE d \in lost
    <3>1. Text(d) = Taken(d) \o channel[d] /\ conn[d] \in {"open", "closed"}
      BY <1>1, <2>2 DEF Text
    <3>2. PartOfReport(d, Text(d))
      <4>1. LinesBy(d, Text(d)) /\ AsFarAs(dumper[d], Text(d))
        BY <3>1 DEF SessionInv, Texts, TextRight
      <4>. QED BY <4>1, ReportIsRight
    <3>3. Taken(d) \in Seq(Element) /\ channel[d] \in Seq(Element)
      BY TextIsTyped
    <3>4. PartOfReport(d, Taken(d))
      BY <3>1, <3>2, <3>3, PartOfPart
    <3>5. Text(d)' = Taken(d) \o << >> /\ conn'[d] = "reset"
      BY <1>2, <2>1, <2>2 DEF Text
    <3>6. Taken(d) \o << >> = Taken(d)
      BY <3>3, ConcatEmptySeq
    <3>. QED BY <3>4, <3>5, <3>6 DEF TextRight
  <2>3. CASE d \notin lost
    <3>1. Text(d)' = Text(d)
      BY <1>1, <1>2, <2>1, <2>3 DEF Text, OnConsole
    <3>. QED BY <1>1, <1>2, <2>3, <3>1, TextKept
  <2>. QED BY <2>2, <2>3
<1>. QED BY <1>3 DEF Texts

LEMMA ConnectsText == ASSUME SessionInv, NEW d \in Launchers, establish_connection(d) PROVE Texts'
<1>0. Types /\ ConnectsOnce /\ Peers /\ Arrives
  BY DEF SessionInv, NetInv, LinesInv
<1>1. /\ conn[d] = "none" /\ dumper'[d] = "begin" /\ conn'[d] \in {"open", "failed"}
      /\ \A o \in Launchers \ {d} : /\ conn'[o] = conn[o] /\ to'[o] = to[o]
                                    /\ dumper'[o] = dumper[o]
      /\ UNCHANGED <<peer, printed, channel, console>>
  BY <1>0 DEF establish_connection, dumpTo, dumpVars, launcherVars, Types, ConnectsOnce, Early
<1>2. \A l \in Launchers : peer[l] # d
  BY <1>0, <1>1, ConstantsAssumption DEF Peers
<1>3. ASSUME NEW o \in Launchers PROVE TextRight(o)'
  <2>1. CASE o = d
    <3>1. Text(d)' = << >>
      <4>1. channel[d] = << >> /\ OnConsole(d) = << >>
        BY <1>0, <1>1 DEF Arrives
      <4>2. Taken(d)' = << >>
        BY <1>1, <1>2 DEF Taken
      <4>3. OnConsole(d)' = << >> /\ channel'[d] = << >>
        BY <1>1, <4>1 DEF OnConsole
      <4>4. << >> \o << >> = << >>
        <5>1. << >> \in Seq(Element)
          BY EmptySeq
        <5>. QED BY <5>1, ConcatEmptySeq
      <4>. QED BY <4>2, <4>3, <4>4 DEF Text
    <3>2. LinesBy(d, << >>) /\ AsFarAs("begin", << >>)
      <4>1. << >> \in Seq(Element) /\ Len(<< >>) = 0 /\ DOMAIN << >> = {}
        BY EmptySeq, LenProperties
      <4>2. OpenTags(<< >>) = << >>
        BY <4>1, OpenTagsFacts
      <4>3. Nesting("begin") = << >>
        BY DEF Nesting
      <4>4. LinesBy(d, << >>)
        BY <4>1 DEF LinesBy
      <4>5. AsFarAs("begin", << >>)
        BY <4>1, <4>2, <4>3 DEF AsFarAs
      <4>. QED BY <4>4, <4>5
    <3>. QED BY <1>1, <2>1, <3>1, <3>2 DEF TextRight
  <2>2. CASE o # d
    <3>1. Taken(o)' = Taken(o)
      BY <1>1, <2>2 DEF Taken
    <3>2. Text(o)' = Text(o)
      BY <1>1, <2>2, <3>1 DEF Text, OnConsole
    <3>. QED BY <1>1, <2>2, <3>2, TextKept
  <2>. QED BY <2>1, <2>2
<1>. QED BY <1>3 DEF Texts

LEMMA WritesText ==
  ASSUME SessionInv, NEW d \in Launchers, NEW from, NEW next, NEW kind, NEW tag,
         Writes(d, from, next, kind, tag)
  PROVE  Texts'
<1>0. Types /\ DataTypes
  BY DEF SessionInv, NetInv, DumpInv
<1>. DEFINE e == [by |-> d, kind |-> kind, tag |-> tag]
<1>1. /\ e \in Element
      /\ \/ conn[d] = "failed" /\ console' = Append(console, e) /\ UNCHANGED channel
         \/ conn[d] = "open" /\ UNCHANGED console /\ channel' = [channel EXCEPT ![d] = Append(@, e)]
         \/ conn[d] = "reset" /\ UNCHANGED <<console, channel>>
      /\ dumper[d] = from /\ dumper' = [dumper EXCEPT ![d] = next]
      /\ UNCHANGED <<peer, printed, conn, to>>
  BY WhereLinesGo
<1>2. e.by = d
  OBVIOUS
<1>3. ASSUME NEW s, LinesBy(d, s), AsFarAs(from, s)
      PROVE  LinesBy(d, Append(s, e)) /\ AsFarAs(next, Append(s, e))
  BY <1>3, ReportGrows DEF Writes
<1>. HIDE DEF e
<1>4. \A o \in Launchers : Taken(o)' = Taken(o)
  BY <1>1 DEF Taken
<1>5. \A o \in Launchers : LinesOf(o, Append(console, e)) = WithLine(o, OnConsole(o), e)
  BY <1>0, <1>1, LinesOfFacts DEF DataTypes, OnConsole
<1>6. ASSUME NEW o \in Launchers, o # d PROVE TextRight(o)'
  <2>1. OnConsole(o)' = OnConsole(o)
    <3>1. CASE UNCHANGED console
      BY <3>1 DEF OnConsole
    <3>2. CASE console' = Append(console, e)
      BY <1>2, <1>5, <1>6, <3>2 DEF OnConsole, WithLine
    <3>. QED BY <1>1, <3>1, <3>2
  <2>2. channel'[o] = channel[o] /\ dumper'[o] = dumper[o]
    BY <1>0, <1>1, <1>6 DEF DataTypes, Types
  <2>3. Text(o)' = Text(o)
    BY <1>1, <1>4, <2>1, <2>2 DEF Text
  <2>. QED BY <1>1, <2>2, <2>3, TextKept
<1>7. TextRight(d)'
  <2>1. TextRight(d) /\ dumper'[d] = next
    BY <1>0, <1>1 DEF SessionInv, Texts, Types
  <2>2. CASE conn[d] = "failed"
    <3>1. OnConsole(d)' = Append(OnConsole(d), e)
      BY <1>1, <1>2, <1>5, <2>2 DEF OnConsole, WithLine
    <3>2. Text(d)' = Append(Text(d), e)
      BY <1>1, <2>2, <3>1 DEF Text
    <3>3. LinesBy(d, Text(d)) /\ AsFarAs(from, Text(d))
      BY <1>1, <2>1, <2>2 DEF TextRight
    <3>4. LinesBy(d, Append(Text(d), e)) /\ AsFarAs(next, Append(Text(d), e))
      BY <1>3, <3>3
    <3>. QED BY <1>1, <2>1, <2>2, <3>2, <3>4 DEF TextRight
  <2>3. CASE conn[d] = "open"
    <3>1. channel'[d] = Append(channel[d], e)
      BY <1>0, <1>1, <2>3 DEF DataTypes
    <3>2. Taken(d) \o Append(channel[d], e) = Append(Taken(d) \o channel[d], e)
      BY <1>1, TextIsTyped, ConcatAppend
    <3>3. Text(d)' = Append(Text(d), e)
      BY <1>1, <1>4, <2>3, <3>1, <3>2 DEF Text
    <3>4. LinesBy(d, Text(d)) /\ AsFarAs(from, Text(d))
      BY <1>1, <2>1, <2>3 DEF TextRight
    <3>5. LinesBy(d, Append(Text(d), e)) /\ AsFarAs(next, Append(Text(d), e))
      BY <1>3, <3>4
    <3>. QED BY <1>1, <2>1, <2>3, <3>3, <3>5 DEF TextRight
  <2>4. CASE conn[d] = "reset"
    <3>1. Text(d)' = Text(d)
      BY <1>1, <1>4, <2>4 DEF Text
    <3>. QED BY <1>1, <2>1, <2>4, <3>1 DEF TextRight
  <2>. QED BY <1>1, <2>2, <2>3, <2>4
<1>. QED BY <1>6, <1>7 DEF Texts

LEMMA TextsStep == SessionInv /\ [Next]_vars => Texts'
<1>. SUFFICES ASSUME SessionInv, [Next]_vars PROVE Texts'
  OBVIOUS
<1>0. Types /\ DataTypes /\ StartsOnce /\ ConnectsOnce
  BY DEF SessionInv, NetInv, DumpInv
<1>. USE DEF serverTo, mainTo, dumpTo, launcherVars, attachVars, netVars, xmlVars, dumpVars
<1>1. ASSUME NEW l \in Launchers,
             Launch(l) \/ Load(l) \/ LoadBreaks(l) \/ StartServer(l) \/ AcceptTimesOut(l)
             \/ EndOfStream(l)
      PROVE  Texts'
  <2>1. UNCHANGED <<peer, printed, channel, console, to, conn, dumper>>
    BY <1>1 DEF Launch, Load, LoadBreaks, StartServer, AcceptTimesOut, EndOfStream
  <2>. QED BY <2>1, TextsRest
<1>2. CASE ResetOptions \/ ParseOptions \/ UNCHANGED vars
  <2>1. UNCHANGED <<peer, printed, channel, console, to, conn, dumper>>
    BY <1>2 DEF ResetOptions, ParseOptions, vars
  <2>. QED BY <2>1, TextsRest
<1>3. CASE EndAttach
  <2>1. /\ UNCHANGED <<peer, printed, channel, console, to, conn>>
        /\ \A d \in Launchers : dumper'[d] = dumper[d] \/ conn[d] = "none"
    BY <1>0, <1>3 DEF EndAttach, Types, StartsOnce, ConnectsOnce, Early
  <2>. QED BY <2>1, TextsRest
<1>4. ASSUME NEW d \in Launchers, Test(d) \/ RunGC(d) \/ Search(d) \/ Finish(d) PROVE Texts'
  <2>1. /\ UNCHANGED <<peer, printed, channel, console, to, conn>>
        /\ \A o \in Launchers : \/ dumper'[o] = dumper[o] \/ conn[o] = "none"
                                \/ << dumper[o], dumper'[o] >> \in
                                     { << "search", "leak" >>, << "finish", "done" >> }
    BY <1>0, <1>4 DEF Test, RunGC, Search, Finish, Types, ConnectsOnce, Early
  <2>. QED BY <2>1, TextsRest
<1>5. CASE EndTarget \/ \E d \in Launchers : close_connection(d)
  <2>1. /\ UNCHANGED <<peer, printed, channel, console, to>>
        /\ \A o \in Launchers :
             /\ conn'[o] = conn[o] \/ (conn[o] = "open" /\ conn'[o] = "closed")
             /\ dumper'[o] = dumper[o] \/ << dumper[o], dumper'[o] >> = << "close", "finish" >>
    BY <1>0, <1>5 DEF EndTarget, close_connection, Types
  <2>. QED BY <2>1, TextsRest
<1>6. ASSUME NEW l \in Launchers,
             Accept(l) \/ ReadLine(l) \/ CloseServerSocket(l) \/ GiveUp(l) \/ Kill(l)
      PROVE  Texts'
  BY <1>6, AcceptsText, ReadsText, LosesText
<1>7. ASSUME NEW d \in Launchers,
             establish_connection(d)
             \/ \E from, next, kind, tag : Writes(d, from, next, kind, tag)
      PROVE  Texts'
  BY <1>7, ConnectsText, WritesText
<1>. QED BY <1>0, <1>1, <1>2, <1>3, <1>4, <1>5, <1>6, <1>7, StepKinds

LEMMA UnservedStep == SessionInv /\ [Next]_vars => Unserved'
<1>. SUFFICES ASSUME SessionInv, [Next]_vars PROVE Unserved'
  OBVIOUS
<1>0. Types /\ DataTypes /\ StartsOnce /\ Unserved
  BY DEF SessionInv, NetInv, DumpInv
<1>. USE DEF serverTo, mainTo, launcherVars, attachVars, netVars, xmlVars, dumpVars
<1>1. ASSUME NEW l \in Launchers,
             Launch(l) \/ Load(l) \/ LoadBreaks(l) \/ StartServer(l) \/ AcceptTimesOut(l)
             \/ EndOfStream(l) \/ Accept(l) \/ ReadLine(l)
      PROVE  Unserved'
  BY <1>0, <1>1 DEF Unserved, Types, StartsOnce, Launch, Load, LoadBreaks, StartServer,
                    AcceptTimesOut, EndOfStream, Accept, ReadLine
<1>2. ASSUME NEW l \in Launchers, CloseServerSocket(l) \/ GiveUp(l) \/ Kill(l) PROVE Unserved'
  BY <1>0, <1>2 DEF Unserved, Types, CloseServerSocket, GiveUp, Kill
<1>3. CASE ResetOptions \/ ParseOptions \/ EndAttach \/ UNCHANGED vars
  BY <1>0, <1>3, ConstantsAssumption DEF Unserved, Types, ResetOptions, ParseOptions, EndAttach, vars
<1>4. ASSUME NEW d \in Launchers,
             Test(d) \/ RunGC(d) \/ establish_connection(d) \/ Search(d)
             \/ close_connection(d) \/ Finish(d)
             \/ \E from, next, kind, tag : Writes(d, from, next, kind, tag)
      PROVE  Unserved'
  <2>1. UNCHANGED dumpVars
    BY <1>4 DEF Test, RunGC, establish_connection, Search, close_connection, Finish, Writes, Write
  <2>. QED BY <1>0, <2>1 DEF Unserved
<1>5. CASE EndTarget
  BY <1>0, <1>5 DEF Unserved, EndTarget
<1>. QED BY <1>0, <1>1, <1>2, <1>3, <1>4, <1>5, StepKinds

LEMMA SessionInit == Init => SessionInv
<1>1. Init => Unserved
  <2>1. ASSUME Init, NEW l \in Launchers PROVE main[l] = "idle" /\ attaching # l
    BY <2>1, ConstantsAssumption DEF Init
  <2>. QED BY <2>1, Zenon DEF Unserved
<1>. QED BY <1>1, NetInit, DumpInit, LinesInit, TextsInit DEF SessionInv

LEMMA SessionStep == SessionInv /\ [Next]_vars => SessionInv'
<1>1. SessionInv => NetInv
  BY DEF SessionInv
<1>. QED BY <1>1, NetStep, DumpStep, HoldsStep, ArrivesStep, TextsStep, UnservedStep
         DEF SessionInv, LinesInv
-----------------------------------------------------------------------------
(***************************************************************************)
(* Every variable has its type: a connection never holds more than it can, *)
(* and xml_depth, which is counted down at every close and from which      *)
(* apply_xml_identation takes the number of tabs, is never negative.       *)
(***************************************************************************)
THEOREM TypesAreKept == Spec => []TypeOK
<1>1. SessionInv => TypeOK
  <2>. SUFFICES ASSUME SessionInv PROVE TypeOK
    OBVIOUS
  <2>1. Types /\ DataTypes
    BY DEF SessionInv, NetInv, DumpInv
  <2>2. Early \cup Late = {"none", "testAndSet", "refused", "gc", "connect", "begin", "open",
                           "search", "leak", "print_fn", "elements", "references",
                           "closeLeak", "close", "finish", "done"}
    BY DEF Early, Late
  <2>. QED BY <2>1, <2>2 DEF TypeOK, Types, DataTypes, Mains, Servers, Todos
<1>. QED BY SessionInit, SessionStep, <1>1, PTL DEF Spec

(* What a launcher has is part of the report that it takes.                 *)
LEMMA ReportsDoNotMix == SessionInv => OneReportPerLauncher
<1>. SUFFICES ASSUME SessionInv, NEW l \in Launchers, peer[l] # None
              PROVE  PartOfReport(peer[l], printed[l] \o
                                  (IF server[l] = "killed" THEN << >> ELSE channel[peer[l]]))
  BY DEF OneReportPerLauncher
<1>1. PICK d \in Launchers : d = peer[l]
  BY DEF SessionInv, NetInv, Types
<1>2. to[d] = l /\ Taken(d) = printed[l]
  BY <1>1 DEF SessionInv, NetInv, Peers, Taken
<1>3. TextRight(d) /\ Taken(d) \in Seq(Element)
  BY TextIsTyped DEF SessionInv, Texts
<1>4. CASE server[l] = "killed"
  <2>1. conn[d] = "reset" /\ channel[d] = << >>
    BY <1>1, <1>4 DEF SessionInv, LinesInv, Holds, Arrives
  <2>2. PartOfReport(d, Taken(d) \o << >>)
    BY <1>3, <2>1 DEF TextRight, Text
  <2>. QED BY <1>1, <1>2, <1>4, <2>2
<1>5. CASE server[l] # "killed"
  <2>1. conn[d] \in {"open", "closed"}
    BY <1>1, <1>5 DEF SessionInv, LinesInv, Holds
  <2>2. LinesBy(d, Text(d)) /\ AsFarAs(dumper[d], Text(d))
    BY <1>3, <2>1 DEF TextRight
  <2>3. PartOfReport(d, Text(d))
    BY <2>2, ReportIsRight
  <2>4. Text(d) = printed[l] \o channel[d]
    BY <1>2, <2>1 DEF Text
  <2>. QED BY <1>1, <1>5, <2>3, <2>4
<1>. QED BY <1>4, <1>5

(***************************************************************************)
(* A launcher has lines of one report only, from its first line on and     *)
(* properly nested, at every moment and however many launchers, dumps and  *)
(* leaks there are.                                                        *)
(***************************************************************************)
THEOREM LaunchersPrintOneReport == Spec => []OneReportPerLauncher
BY SessionInit, SessionStep, ReportsDoNotMix, PTL DEF Spec

(* What a launcher has that has come to the end of the stream.              *)
LEMMA EndOfReport ==
  ASSUME SessionInv, NEW l \in Launchers, NEW d \in Launchers, peer[l] = d,
         conn[d] = "closed", channel[d] = << >>
  PROVE  /\ dumper[d] \in {"close", "finish", "done"} => WholeReport(d, printed[l])
         /\ dumper[d] \notin {"close", "finish", "done"} =>
              ~ alive /\ dumper[d] \in Unfinished /\ ~ WholeReport(d, printed[l])
<1>1. to[d] = l /\ Taken(d) = printed[l]
  BY ConstantsAssumption DEF SessionInv, NetInv, Peers, Taken
<1>2. printed[l] \in Seq(Element)
  BY DEF SessionInv, DumpInv, DataTypes
<1>3. Text(d) = printed[l]
  BY <1>1, <1>2, ConcatEmptySeq DEF Text
<1>4. LinesBy(d, printed[l]) /\ AsFarAs(dumper[d], printed[l])
  BY <1>3 DEF SessionInv, Texts, TextRight
<1>5. /\ dumper[d] \in {"close", "finish", "done"} => WholeReport(d, printed[l])
      /\ dumper[d] \in Unfinished => ~ WholeReport(d, printed[l])
  BY <1>4, ReportIsRight
<1>6. dumper[d] \notin {"close", "finish", "done"} => ~ alive /\ dumper[d] \in Unfinished
  BY DEF SessionInv, NetInv, Types, ConnectsOnce, DumpInv, Ends, Unfinished, Writing
<1>. QED BY <1>5, <1>6

LEMMA EndsAreRight == SessionInv => TruncationMeansDeath
<1>. SUFFICES ASSUME SessionInv, NEW l \in Launchers, server[l] = "ended",
                     ~ WholeReport(peer[l], printed[l])
              PROVE  ~ alive
  BY DEF TruncationMeansDeath
<1>1. peer[l] # None /\ peer[l] \in Launchers
  BY DEF SessionInv, NetInv, Types, LinesInv, Holds
<1>2. conn[peer[l]] = "closed" /\ channel[peer[l]] = << >>
  BY <1>1 DEF SessionInv, LinesInv, Holds
<1>. QED BY <1>1, <1>2, EndOfReport

(***************************************************************************)
(* The end of a stream, which a launcher takes for the end of the report,  *)
(* is that, unless the target died.                                        *)
(***************************************************************************)
THEOREM OnlyDeathTruncates == Spec => []TruncationMeansDeath
BY SessionInit, SessionStep, EndsAreRight, PTL DEF Spec

(* Where the text of a dump is that is over.                                *)
LEMMA ReportsArrive == SessionInv => ReportsAreAccountedFor
<1>. SUFFICES ASSUME SessionInv, NEW d \in Launchers, dumper[d] \in {"finish", "done"}
              PROVE  /\ conn[d] # "open"
                     /\ conn[d] = "failed" => WholeReport(d, OnConsole(d))
                     /\ conn[d] = "closed" =>
                          LET l == to[d]
                          IN  \/ peer[l] = d /\ WholeReport(d, printed[l] \o channel[d])
                              \/ d \in InBacklog(l) /\ WholeReport(d, channel[d])
  BY DEF ReportsAreAccountedFor
<1>1. conn[d] # "open"
  BY DEF SessionInv, DumpInv, Ends
<1>2. conn[d] \in {"failed", "closed"} => WholeReport(d, Text(d))
  <2>. SUFFICES ASSUME conn[d] \in {"failed", "closed"} PROVE WholeReport(d, Text(d))
    OBVIOUS
  <2>1. LinesBy(d, Text(d)) /\ AsFarAs(dumper[d], Text(d))
    BY DEF SessionInv, Texts, TextRight
  <2>. QED BY <2>1, ReportIsRight
<1>3. CASE conn[d] = "failed"
  BY <1>1, <1>2, <1>3 DEF Text
<1>4. CASE conn[d] = "closed"
  <2>1. PICK l \in Launchers : to[d] = l
    BY <1>4 DEF SessionInv, NetInv, ConnectsOnce
  <2>2. peer[l] = d \/ d \in InBacklog(l)
    BY <1>4, <2>1 DEF SessionInv, LinesInv, Arrives
  <2>3. Text(d) = Taken(d) \o channel[d]
    BY <1>4 DEF Text
  <2>4. CASE peer[l] = d
    <3>1. Text(d) = printed[l] \o channel[d]
      BY <2>1, <2>3, <2>4 DEF Taken
    <3>. QED BY <1>1, <1>2, <1>4, <2>1, <2>4, <3>1
  <2>5. CASE peer[l] # d
    <3>1. Taken(d) = << >>
      BY <2>1, <2>5 DEF Taken
    <3>2. << >> \o channel[d] = channel[d]
      BY TextIsTyped, ConcatEmptySeq
    <3>. QED BY <1>1, <1>2, <1>4, <2>1, <2>2, <2>3, <2>5, <3>1, <3>2
  <2>. QED BY <2>4, <2>5
<1>5. CASE conn[d] \notin {"failed", "closed"}
  BY <1>1, <1>5
<1>. QED BY <1>3, <1>4, <1>5

(***************************************************************************)
(* The report of a dump that is over is where it should be, all of it: at  *)
(* its launcher, on the way there, or in the target's own output when      *)
(* establish_connection failed, whose result nobody looks at.              *)
(***************************************************************************)
THEOREM NoReportIsMislaid == Spec => []ReportsAreAccountedFor
BY SessionInit, SessionStep, ReportsArrive, PTL DEF Spec
-----------------------------------------------------------------------------
(* The session as ReportDelivery sees it: each step of the threads, sockets *)
(* and timers is one of its steps, or none.                                 *)
Fates    == [d \in Launchers |-> Fate(d)]
Outcomes == [l \in Launchers |-> Outcome(l)]

LEMMA FatesMove ==
  ASSUME NEW d \in Launchers, NEW v, Fate(d)' = v,
         \A o \in Launchers \ {d} : Fate(o)' = Fate(o)
  PROVE  Fates' = [Fates EXCEPT ![d] = v]
<1>1. \A o \in Launchers : Fate(o)' = [Fates EXCEPT ![d] = v][o]
  BY DEF Fates
<1>2. Fates' = [o \in Launchers |-> Fate(o)']
  BY DEF Fates
<1>3. [Fates EXCEPT ![d] = v] = [o \in Launchers |-> [Fates EXCEPT ![d] = v][o]]
  BY DEF Fates
<1>. QED BY <1>1, <1>2, <1>3, Zenon

LEMMA OutcomesMove ==
  ASSUME NEW l \in Launchers, NEW v, Outcome(l)' = v,
         \A o \in Launchers \ {l} : Outcome(o)' = Outcome(o)
  PROVE  Outcomes' = [Outcomes EXCEPT ![l] = v]
<1>1. \A o \in Launchers : Outcome(o)' = [Outcomes EXCEPT ![l] = v][o]
  BY DEF Outcomes
<1>2. Outcomes' = [o \in Launchers |-> Outcome(o)']
  BY DEF Outcomes
<1>3. [Outcomes EXCEPT ![l] = v] = [o \in Launchers |-> [Outcomes EXCEPT ![l] = v][o]]
  BY DEF Outcomes
<1>. QED BY <1>1, <1>2, <1>3, Zenon

(* What an outcome and a fate depend on.                                    *)
LEMMA OutcomeRests ==
  ASSUME NEW l \in Launchers, server'[l] = server[l],
         server[l] = "none" => main'[l] = main[l],
         server[l] = "ended" => UNCHANGED <<peer, printed>>
  PROVE  Outcome(l)' = Outcome(l)
<1>1. CASE server[l] = "ended"
  BY <1>1 DEF Outcome
<1>2. CASE server[l] = "none"
  BY <1>2 DEF Outcome
<1>3. CASE server[l] \notin {"ended", "none"}
  BY <1>3 DEF Outcome
<1>. QED BY <1>1, <1>2, <1>3

LEMMA AllOutcomesRest ==
  ASSUME \A l \in Launchers : Outcome(l)' = Outcome(l)
  PROVE  Outcomes' = Outcomes
BY Zenon DEF Outcomes

LEMMA AllFatesRest ==
  ASSUME \A d \in Launchers : Fate(d)' = Fate(d)
  PROVE  Fates' = Fates
BY Zenon DEF Fates

LEMMA FateFacts ==
  ASSUME Types, NEW d \in Launchers
  PROVE  /\ Fate(d) = "none" <=> dumper[d] \in Early
         /\ Fate(d) = "whole" <=> dumper[d] \in {"close", "finish", "done"}
         /\ Fate(d) = "writing" <=> alive /\ dumper[d] \in Unfinished
         /\ Fate(d) = "cut" <=> ~ alive /\ dumper[d] \in Unfinished
         /\ Fate(d) \in {"none", "whole", "writing", "cut"}
BY DEF Types, Fate, Early, Late, Unfinished, Writing

LEMMA RefinesInit == Init => Delivery!Init
<1>. SUFFICES ASSUME Init PROVE Delivery!Init
  OBVIOUS
<1>1. ASSUME NEW d \in Launchers PROVE Fate(d) = "none"
  BY DEF Init, Fate
<1>2. ASSUME NEW l \in Launchers PROVE Outcome(l) = [is |-> "pending", report |-> None]
  BY DEF Init, Outcome
<1>3. alive = TRUE
  BY DEF Init
<1>. QED BY <1>1, <1>2, <1>3, Zenon DEF Delivery!Init, Delivery!Pending

(* A launcher without a report.                                             *)
LEMMA NothingReceived ==
  ASSUME NEW l \in Launchers, Outcome(l) = [is |-> "pending", report |-> None],
         Outcome(l)' = [is |-> "nothing", report |-> None],
         \A o \in Launchers \ {l} : Outcome(o)' = Outcome(o), alive' = alive, Fates' = Fates
  PROVE  Delivery!GiveUp(l)
<1>1. Outcomes' = [Outcomes EXCEPT ![l] = [is |-> "nothing", report |-> None]]
  BY OutcomesMove
<1>2. Outcomes[l] = [is |-> "pending", report |-> None]
  BY DEF Outcomes
<1>. QED BY <1>1, <1>2, Zenon DEF Delivery!GiveUp, Delivery!Pending, Delivery!Nothing, Outcomes, Fates

(* The end of the stream.                                                   *)
LEMMA EndReceives ==
  ASSUME SessionInv, NEW l \in Launchers, EndOfStream(l)
  PROVE  \E d \in Launchers : Delivery!Receive(l, d)
<1>0. Types /\ Peers
  BY DEF SessionInv, NetInv
<1>1. PICK d \in Launchers : /\ peer[l] = d /\ to[d] = l /\ conn[d] = "closed"
                            /\ channel[d] = << >> /\ server[l] = "reading"
  BY <1>0 DEF EndOfStream, Types, Peers
<1>2. /\ server'[l] = "ended" /\ \A o \in Launchers \ {l} : server'[o] = server[o]
      /\ UNCHANGED <<main, peer, printed, alive, dumper>>
  BY <1>0 DEF EndOfStream, serverTo, Types
<1>3. \A o \in Launchers : Fate(o)' = Fate(o)
  BY <1>2 DEF Fate
<1>4. \A o \in Launchers \ {l} : Outcome(o)' = Outcome(o)
  BY <1>2, OutcomeRests
<1>5. Outcome(l) = [is |-> "pending", report |-> None]
  BY <1>1 DEF Outcome
<1>6. Outcome(l)' = [is |-> IF WholeReport(d, printed[l]) THEN "whole" ELSE "cut", report |-> d]
  BY <1>1, <1>2 DEF Outcome
<1>7. Fate(d) = IF WholeReport(d, printed[l]) THEN "whole" ELSE "cut"
  <2>1. CASE dumper[d] \in {"close", "finish", "done"}
    BY <1>0, <1>1, <2>1, EndOfReport, FateFacts
  <2>2. CASE dumper[d] \notin {"close", "finish", "done"}
    BY <1>0, <1>1, <2>2, EndOfReport, FateFacts
  <2>. QED BY <2>1, <2>2
<1>8. ASSUME NEW o \in Launchers PROVE Outcome(o).report # d
  <2>1. CASE server[o] = "ended"
    <3>1. Outcome(o).report = peer[o]
      BY <2>1 DEF Outcome
    <3>2. peer[o] # d
      BY <1>0, <1>1, <2>1, ConstantsAssumption DEF Peers
    <3>. QED BY <3>1, <3>2
  <2>2. CASE server[o] # "ended"
    BY <2>2, ConstantsAssumption DEF Outcome
  <2>. QED BY <2>1, <2>2
<1>9. Outcomes' = [Outcomes EXCEPT ![l] = [is |-> Fate(d), report |-> d]]
  BY <1>4, <1>6, <1>7, OutcomesMove
<1>10. /\ Outcomes[l] = [is |-> "pending", report |-> None]
       /\ Fates[d] = Fate(d) /\ Fate(d) \in {"whole", "cut"}
       /\ \A o \in Launchers : Outcomes[o].report # d
  BY <1>5, <1>7, <1>8 DEF Outcomes, Fates
<1>11. Fates' = Fates
  BY <1>3, AllFatesRest
<1>12. Delivery!Receive(l, d)
  BY <1>2, <1>9, <1>10, <1>11 DEF Delivery!Receive, Delivery!Pending, Outcomes, Fates
<1>. QED BY <1>12

(* The steps of the launchers.                                              *)
LEMMA LaunchersRefine ==
  ASSUME SessionInv, NEW l \in Launchers,
         \/ Launch(l) \/ Load(l) \/ LoadBreaks(l) \/ StartServer(l) \/ AcceptTimesOut(l)
         \/ Accept(l) \/ ReadLine(l) \/ CloseServerSocket(l) \/ GiveUp(l) \/ Kill(l)
  PROVE  /\ alive' = alive /\ Fates' = Fates
         /\ Outcomes' = Outcomes \/ Delivery!GiveUp(l)
<1>0. Types /\ Peers /\ StartsOnce /\ Unserved
  BY DEF SessionInv, NetInv
<1>. USE DEF serverTo, mainTo
<1>1. UNCHANGED <<alive, dumper>>
  BY DEF Launch, Load, LoadBreaks, StartServer, AcceptTimesOut, Accept, ReadLine,
         CloseServerSocket, GiveUp, Kill
<1>2. Fates' = Fates
  <2>1. \A d \in Launchers : Fate(d)' = Fate(d)
    BY <1>1 DEF Fate
  <2>. QED BY <2>1, AllFatesRest
<1>3. \A o \in Launchers \ {l} : Outcome(o)' = Outcome(o)
  <2>1. ASSUME NEW o \in Launchers, o # l
        PROVE  server'[o] = server[o] /\ main'[o] = main[o] /\ peer'[o] = peer[o]
               /\ printed'[o] = printed[o]
    BY <1>0, <2>1 DEF SessionInv, DumpInv, DataTypes, Types, Launch, Load, LoadBreaks,
                      StartServer, AcceptTimesOut, Accept, ReadLine, CloseServerSocket, GiveUp, Kill
  <2>2. ASSUME NEW o \in Launchers, o # l PROVE Outcome(o)' = Outcome(o)
    <3>1. CASE server[o] = "ended"
      BY <2>1, <2>2, <3>1 DEF Outcome
    <3>2. CASE server[o] # "ended"
      BY <2>1, <2>2, <3>2 DEF Outcome
    <3>. QED BY <3>1, <3>2
  <2>. QED BY <2>2
<1>. DEFINE pending == [is |-> "pending", report |-> None]
            nothing == [is |-> "nothing", report |-> None]
            Without == server[l] \in {"noSocket", "failed", "killed"}
                       \/ (server[l] = "none" /\ main[l] = "failed")
<1>4. server[l] # "ended" => Outcome(l) = IF Without THEN nothing ELSE pending
  BY DEF Outcome
<1>5. server'[l] # "ended" => Outcome(l)' = IF Without' THEN nothing ELSE pending
  BY DEF Outcome
<1>6. \/ server[l] = "ended" /\ UNCHANGED <<server, peer, printed>>
      \/ server[l] # "ended" /\ server'[l] # "ended" /\ (Without => Without')
  <2>1. CASE Launch(l) \/ Load(l) \/ LoadBreaks(l)
    BY <1>0, <2>1 DEF Launch, Load, LoadBreaks, Types, StartsOnce, Unserved
  <2>2. CASE StartServer(l) \/ AcceptTimesOut(l) \/ Accept(l) \/ ReadLine(l)
    BY <1>0, <2>2 DEF StartServer, AcceptTimesOut, Accept, ReadLine, Types
  <2>3. CASE CloseServerSocket(l) \/ GiveUp(l)
    BY <1>0, <2>3 DEF CloseServerSocket, GiveUp, Types
  <2>4. CASE Kill(l)
    <3>1. /\ server'[l] = IF server[l] \in {"noSocket", "failed", "ended"} THEN server[l] ELSE "killed"
          /\ \A o \in Launchers \ {l} : server'[o] = server[o]
          /\ server' \in [Launchers -> Servers] /\ UNCHANGED <<peer, printed>>
      BY <1>0, <2>4 DEF Kill, Types, Servers
    <3>2. server'[l] = server[l] => server' = server
      BY <1>0, <3>1 DEF Types
    <3>. QED BY <3>1, <3>2
  <2>. QED BY <2>1, <2>2, <2>3, <2>4
<1>7. CASE server[l] = "ended" /\ UNCHANGED <<server, peer, printed>>
  <2>1. Outcome(l)' = Outcome(l)
    BY <1>7 DEF Outcome
  <2>. QED BY <1>1, <1>2, <1>3, <2>1, AllOutcomesRest
<1>8. CASE server[l] # "ended" /\ server'[l] # "ended" /\ (Without => Without')
  <2>. HIDE DEF pending, nothing, Without
  <2>1. CASE Outcome(l)' = Outcome(l)
    BY <1>1, <1>2, <1>3, <2>1, AllOutcomesRest
  <2>2. CASE Outcome(l)' # Outcome(l)
    <3>1. Outcome(l) = pending /\ Outcome(l)' = nothing
      BY <1>4, <1>5, <1>8, <2>2
    <3>2. Delivery!GiveUp(l)
      BY <1>1, <1>2, <1>3, <3>1, NothingReceived DEF pending, nothing
    <3>. QED BY <1>1, <1>2, <3>2
  <2>. QED BY <2>1, <2>2
<1>. QED BY <1>6, <1>7, <1>8

(* The steps of a dumper.                                                   *)
LEMMA DumpersRefine ==
  ASSUME SessionInv, NEW d \in Launchers,
         \/ Test(d) \/ RunGC(d) \/ establish_connection(d) \/ Search(d)
         \/ close_connection(d) \/ Finish(d)
         \/ \E from, next, kind, tag : Writes(d, from, next, kind, tag)
  PROVE  \/ alive' = alive /\ Fates' = Fates /\ Outcomes' = Outcomes
         \/ Delivery!Begin(d) \/ Delivery!Complete(d)
<1>0. Types /\ OneDump /\ DataTypes
  BY DEF SessionInv, NetInv, DumpInv
<1>. USE DEF dumpTo, dumpVars, launcherVars
<1>1. Outcomes' = Outcomes
  <2>1. UNCHANGED <<server, main, peer, printed>>
    BY DEF Test, RunGC, establish_connection, Search, close_connection, Finish, Writes, Write
  <2>2. \A l \in Launchers : Outcome(l)' = Outcome(l)
    BY <2>1, OutcomeRests
  <2>. QED BY <2>2, AllOutcomesRest
<1>2. ASSUME NEW pc \in Early \cup Late, dumper' = [dumper EXCEPT ![d] = pc], alive, alive' = alive
      PROVE  /\ \A o \in Launchers \ {d} : Fate(o)' = Fate(o)
             /\ Fate(d)' = IF pc \in Early THEN "none"
                           ELSE IF pc \in Unfinished THEN "writing" ELSE "whole"
             /\ Fate(d) = IF dumper[d] \in Early THEN "none"
                          ELSE IF dumper[d] \in Unfinished THEN "writing" ELSE "whole"
  <2>1. dumper'[d] = pc /\ \A o \in Launchers \ {d} : dumper'[o] = dumper[o]
    BY <1>0, <1>2 DEF Types
  <2>2. dumper[d] \in Early \cup Late
    BY <1>0 DEF Types
  <2>. QED BY <1>2, <2>1, <2>2 DEF Fate, Early, Late, Unfinished, Writing
<1>3. ASSUME NEW pc \in Early \cup Late, dumper' = [dumper EXCEPT ![d] = pc], alive, alive' = alive,
             \/ {dumper[d], pc} \subseteq Early \/ {dumper[d], pc} \subseteq Unfinished
             \/ {dumper[d], pc} \subseteq {"close", "finish", "done"}
      PROVE  Fates' = Fates
  <2>1. Fate(d)' = Fate(d)
    BY <1>2, <1>3 DEF Early, Late, Unfinished, Writing
  <2>2. \A o \in Launchers : Fate(o)' = Fate(o)
    BY <1>2, <1>3, <2>1
  <2>. QED BY <2>2, AllFatesRest
<1>4. CASE Test(d) \/ RunGC(d) \/ Search(d) \/ close_connection(d) \/ Finish(d)
  <2>1. PICK pc \in Early \cup Late :
          /\ dumper' = [dumper EXCEPT ![d] = pc] /\ alive /\ alive' = alive
          /\ \/ {dumper[d], pc} \subseteq Early \/ {dumper[d], pc} \subseteq Unfinished
             \/ {dumper[d], pc} \subseteq {"close", "finish", "done"}
    BY <1>4 DEF Test, RunGC, Search, close_connection, Finish, Early, Late, Unfinished, Writing
  <2>. QED BY <1>1, <1>3, <2>1
<1>5. CASE \E from, next, kind, tag : Writes(d, from, next, kind, tag)
  <2>1. PICK from, next, kind, tag : Writes(d, from, next, kind, tag)
    BY <1>5
  <2>2. /\ dumper' = [dumper EXCEPT ![d] = next] /\ alive /\ alive' = alive /\ dumper[d] = from
        /\ from \in Unfinished /\ next \in Unfinished \cup {"close"} /\ next \in Early \cup Late
    BY <2>1 DEF Writes, Write, Lines, Unfinished, Writing, Late
  <2>3. CASE next \in Unfinished
    BY <1>1, <1>3, <2>2, <2>3
  <2>4. CASE next = "close"
    <3>1. Fate(d) = "writing" /\ Fate(d)' = "whole" /\ \A o \in Launchers \ {d} : Fate(o)' = Fate(o)
      BY <1>2, <2>2, <2>4 DEF Early, Unfinished, Writing, Late
    <3>2. Fates' = [Fates EXCEPT ![d] = "whole"] /\ Fates[d] = "writing"
      BY <3>1, FatesMove DEF Fates
    <3>3. Delivery!Complete(d)
      BY <1>1, <2>2, <3>2 DEF Delivery!Complete, Fates, Outcomes
    <3>. QED BY <3>3
  <2>. QED BY <2>2, <2>3, <2>4
<1>6. CASE establish_connection(d)
  <2>1. dumper' = [dumper EXCEPT ![d] = "begin"] /\ alive /\ alive' = alive /\ dumper[d] = "connect"
    BY <1>6 DEF establish_connection
  <2>2. Fate(d) = "none" /\ Fate(d)' = "writing" /\ \A o \in Launchers \ {d} : Fate(o)' = Fate(o)
    BY <1>2, <2>1 DEF Early, Late, Unfinished, Writing
  <2>3. \A o \in Launchers : Fates[o] # "writing"
    <3>1. \A o \in Launchers : dumper[o] \notin Writing
      BY <1>0, <2>1 DEF OneDump, Writing, Late
    <3>2. \A o \in Launchers : Fate(o) # "writing"
      BY <1>0, <3>1, FateFacts DEF Unfinished
    <3>. QED BY <3>2 DEF Fates
  <2>4. Fates' = [Fates EXCEPT ![d] = "writing"] /\ Fates[d] = "none"
    BY <2>2, FatesMove DEF Fates
  <2>5. Delivery!Begin(d)
    BY <1>1, <2>1, <2>3, <2>4 DEF Delivery!Begin, Fates, Outcomes
  <2>. QED BY <2>5
<1>. QED BY <1>4, <1>5, <1>6

(* The end of the target, wherever the dumpers are.                         *)
LEMMA EndRefines == ASSUME EndTarget PROVE Delivery!Die
<1>1. alive /\ alive' = FALSE /\ UNCHANGED <<dumper, server, main, peer, printed>>
  BY DEF EndTarget, dumpVars, launcherVars
<1>2. Outcomes' = Outcomes
  <2>1. \A l \in Launchers : Outcome(l)' = Outcome(l)
    BY <1>1, OutcomeRests
  <2>. QED BY <2>1, AllOutcomesRest
<1>3. Fates' = [d \in Launchers |-> IF Fates[d] = "writing" THEN "cut" ELSE Fates[d]]
  <2>1. ASSUME NEW d \in Launchers
        PROVE  Fate(d)' = IF Fate(d) = "writing" THEN "cut" ELSE Fate(d)
    BY <1>1 DEF Fate
  <2>2. \A d \in Launchers : Fates[d] = Fate(d)
    BY DEF Fates
  <2>3. Fates' = [d \in Launchers |-> Fate(d)']
    BY DEF Fates
  <2>. QED BY <2>1, <2>2, <2>3
<1>. QED BY <1>1, <1>2, <1>3 DEF Delivery!Die, Fates, Outcomes

LEMMA RefinesStep == SessionInv /\ [Next]_vars => [Delivery!Next]_Delivery!vars
<1>. SUFFICES ASSUME SessionInv, [Next]_vars PROVE Delivery!Next \/ UNCHANGED Delivery!vars
  OBVIOUS
<1>0. Types /\ DataTypes /\ StartsOnce /\ Unserved
  BY DEF SessionInv, NetInv, DumpInv
<1>1. alive' = alive /\ Fates' = Fates /\ Outcomes' = Outcomes => UNCHANGED Delivery!vars
  BY DEF Delivery!vars, Fates, Outcomes
<1>2. ASSUME NEW l \in Launchers, EndOfStream(l) PROVE Delivery!Next
  BY <1>2, EndReceives DEF Delivery!Next
<1>3. ASSUME NEW l \in Launchers,
             \/ Launch(l) \/ Load(l) \/ LoadBreaks(l) \/ StartServer(l) \/ AcceptTimesOut(l)
             \/ Accept(l) \/ ReadLine(l) \/ CloseServerSocket(l) \/ GiveUp(l) \/ Kill(l)
      PROVE  Delivery!Next \/ UNCHANGED Delivery!vars
  <2>1. alive' = alive /\ Fates' = Fates /\ (Outcomes' = Outcomes \/ Delivery!GiveUp(l))
    BY <1>3, LaunchersRefine
  <2>. QED BY <1>1, <2>1 DEF Delivery!Next
<1>4. CASE ResetOptions \/ ParseOptions \/ EndAttach \/ UNCHANGED vars
  <2>1. /\ UNCHANGED <<server, peer, printed, alive>>
        /\ \A l \in Launchers : server[l] = "none" => main'[l] = main[l]
    BY <1>0, <1>4, ConstantsAssumption
    DEF ResetOptions, ParseOptions, EndAttach, vars, launcherVars, attachVars, Unserved, Types
  <2>2. \A l \in Launchers : Outcome(l)' = Outcome(l)
    BY <2>1, OutcomeRests
  <2>3. \A d \in Launchers : dumper'[d] = dumper[d] \/ {dumper[d], dumper'[d]} \subseteq Early
    BY <1>0, <1>4 DEF ResetOptions, ParseOptions, EndAttach, vars, StartsOnce, Types, Early
  <2>4. \A d \in Launchers : Fate(d)' = Fate(d)
    BY <2>1, <2>3 DEF Fate, Early
  <2>. QED BY <1>1, <2>1, <2>2, <2>4, AllOutcomesRest, AllFatesRest
<1>5. ASSUME NEW d \in Launchers,
             \/ Test(d) \/ RunGC(d) \/ establish_connection(d) \/ Search(d)
             \/ close_connection(d) \/ Finish(d)
             \/ \E from, next, kind, tag : Writes(d, from, next, kind, tag)
      PROVE  Delivery!Next \/ UNCHANGED Delivery!vars
  <2>1. \/ alive' = alive /\ Fates' = Fates /\ Outcomes' = Outcomes
        \/ Delivery!Begin(d) \/ Delivery!Complete(d)
    BY <1>5, DumpersRefine
  <2>. QED BY <1>1, <2>1 DEF Delivery!Next
<1>6. CASE EndTarget
  BY <1>6, EndRefines DEF Delivery!Next
<1>. QED BY <1>0, <1>2, <1>3, <1>4, <1>5, <1>6, StepKinds

(***************************************************************************)
(* The agent and its launchers keep the promise of ReportDelivery: one     *)
(* report is written at a time, reaches at most one launcher, and all of   *)
(* it unless the target ends while it is written.                          *)
(***************************************************************************)
THEOREM SessionDelivers == Spec => DeliversReports
BY SessionInit, SessionStep, RefinesInit, RefinesStep, PTL DEF Spec, DeliversReports, Delivery!Spec
===============================================================================
