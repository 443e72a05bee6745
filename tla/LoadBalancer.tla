---------------------------- MODULE LoadBalancer ----------------------------
(***************************************************************************)
(* The nginx in front of the gRPC proxies (deploy/nginx-grpc.conf) and the *)
(* life of a call of the kube-apiserver that goes through it.  nginx is    *)
(* not under src/: its steps are what this configuration makes it do.      *)
(*                                                                         *)
(*  - The group grpc_proxies is served in turn, with the defaults          *)
(*    max_fails = 1 and fail_timeout = 10s: a proxy that failed a call is  *)
(*    left out for a while.  The turn is a free choice here.               *)
(*  - grpc_pass obeys the grpc_ directives; the proxy_ directives next to  *)
(*    it do not apply to it.  The defaults have the conditions the file    *)
(*    writes down (next upstream on error and timeout) and a timeout too.  *)
(*  - A gRPC call is a POST.  Without non_idempotent, nginx goes to the    *)
(*    next proxy only while the request was not sent to one.               *)
(*                                                                         *)
(* The proxy's handler runs signFn to its end: it looks neither at its     *)
(* context nor at a clock, and signers that hang keep it for ever.         *)
(***************************************************************************)
EXTENDS Naturals, FiniteSets

CONSTANTS
  Proxies,        \* the servers of upstream grpc_proxies
  Calls,          \* gRPC calls of the kube-apiserver
  None,           \* no proxy
  MaxKills        \* bound on the number of proxy processes that die

ASSUME LoadBalancerAssumption ==
  /\ None \notin Proxies
  /\ MaxKills \in Nat

VARIABLES
  up,             \* proxies whose process listens
  unavailable,    \* proxies nginx leaves out until fail_timeout has passed
  call,           \* call[c]: where c is in nginx, or how it was answered
  at,             \* at[c]: the proxy that has the request
  tried,          \* tried[c]: proxies that nginx could not connect to for c
  handlers,       \* pairs of a call and a proxy whose Server.Sign runs
  delivered,      \* history: delivered[c]: the proxies that ever got the request
  stumbled,       \* history: proxies that died or let a call run into the timeout
  kills           \* how many proxies have died

vars == <<up, unavailable, call, at, tried, handlers, delivered, stumbled, kills>>

\* The proxy's own answer, a token or a gRPC error; 502 and 504 of nginx.
Answers == {"token", "error", "bad_gateway", "timeout"}

\* A handler runs only in a process that is there; a call that waits for an answer
\* waits at one proxy.
TypeOK ==
  /\ up \subseteq Proxies
  /\ unavailable \subseteq Proxies
  /\ call \in [Calls -> {"none", "choose", "sent"} \cup Answers]
  /\ at \in [Calls -> Proxies \cup {None}]
  /\ tried \in [Calls -> SUBSET Proxies]
  /\ handlers \subseteq Calls \X up
  /\ delivered \in [Calls -> SUBSET Proxies]
  /\ stumbled \subseteq Proxies
  /\ kills \in 0..MaxKills
  /\ \A c \in Calls : call[c] = "sent" <=> at[c] # None

Init ==
  /\ up = Proxies
  /\ unavailable = {}
  /\ call = [c \in Calls |-> "none"]
  /\ at = [c \in Calls |-> None]
  /\ tried = [c \in Calls |-> {}]
  /\ handlers = {}
  /\ delivered = [c \in Calls |-> {}]
  /\ stumbled = {}
  /\ kills = 0

-----------------------------------------------------------------------------
(* nginx.                                                                  *)

Begin(c) ==
  /\ call[c] = "none"
  /\ call' = [call EXCEPT ![c] = "choose"]
  /\ UNCHANGED <<up, unavailable, at, tried, handlers, delivered, stumbled, kills>>

\* The proxies nginx may still try for c.
Candidates(c) == Proxies \ (unavailable \cup tried[c])

\* The connection is there, the request goes out, and the handler starts.
Connect(c, p) ==
  /\ call[c] = "choose"
  /\ p \in Candidates(c) \cap up
  /\ call' = [call EXCEPT ![c] = "sent"]
  /\ at' = [at EXCEPT ![c] = p]
  /\ handlers' = handlers \cup {<<c, p>>}
  /\ delivered' = [delivered EXCEPT ![c] = @ \cup {p}]
  /\ UNCHANGED <<up, unavailable, tried, stumbled, kills>>

\* Mutant: grpc_next_upstream off.
ConnectFailsGivesUp(c, p) ==
  /\ call[c] = "choose"
  /\ p \in Candidates(c) \ up
  /\ unavailable' = unavailable \cup {p}
  /\ call' = [call EXCEPT ![c] = "bad_gateway"]
  /\ UNCHANGED <<up, at, tried, handlers, delivered, stumbled, kills>>

\* Nobody listens there, or the connect times out: on to the next proxy.
ConnectFails(c, p) ==
  /\ call[c] = "choose"
  /\ p \in Candidates(c) \ up
  /\ unavailable' = unavailable \cup {p}
  /\ tried' = [tried EXCEPT ![c] = @ \cup {p}]
  /\ UNCHANGED <<up, call, at, handlers, delivered, stumbled, kills>>

\* "no live upstreams": answered with 502 without asking anyone.
NoLiveUpstream(c) ==
  /\ call[c] = "choose"
  /\ Candidates(c) = {}
  /\ call' = [call EXCEPT ![c] = "bad_gateway"]
  /\ UNCHANGED <<up, unavailable, at, tried, handlers, delivered, stumbled, kills>>

\* Mutant: a request that was sent is passed on (non_idempotent).
ConnectionLostPassesOn(c) ==
  /\ call[c] = "sent"
  /\ at[c] \notin up
  /\ call' = [call EXCEPT ![c] = "choose"]
  /\ tried' = [tried EXCEPT ![c] = @ \cup {at[c]}]
  /\ unavailable' = unavailable \cup {at[c]}
  /\ at' = [at EXCEPT ![c] = None]
  /\ UNCHANGED <<up, handlers, delivered, stumbled, kills>>

\* Mutant: a call is over, and the proxy it was at is not reset.
ConnectionLostKeepsPeer(c) ==
  /\ call[c] = "sent"
  /\ at[c] \notin up
  /\ call' = [call EXCEPT ![c] = "bad_gateway"]
  /\ unavailable' = unavailable \cup {at[c]}
  /\ UNCHANGED <<up, at, tried, handlers, delivered, stumbled, kills>>

\* The proxy died with the request: an error, which for a POST ends the call.
ConnectionLost(c) ==
  /\ call[c] = "sent"
  /\ at[c] \notin up
  /\ call' = [call EXCEPT ![c] = "bad_gateway"]
  /\ unavailable' = unavailable \cup {at[c]}
  /\ at' = [at EXCEPT ![c] = None]
  /\ UNCHANGED <<up, tried, handlers, delivered, stumbled, kills>>

\* Mutant: nginx waits for an answer for ever.
ReadTimeoutNever(c) ==
  /\ call[c] = "sent"
  /\ UNCHANGED vars

\* No answer for the time of the read timeout.  The handler goes on.
ReadTimeout(c) ==
  /\ call[c] = "sent"
  /\ call' = [call EXCEPT ![c] = "timeout"]
  /\ unavailable' = unavailable \cup {at[c]}
  /\ stumbled' = stumbled \cup {at[c]}
  /\ at' = [at EXCEPT ![c] = None]
  /\ UNCHANGED <<up, tried, handlers, delivered, kills>>

\* fail_timeout has passed.
Available(p) ==
  /\ p \in unavailable
  /\ unavailable' = unavailable \ {p}
  /\ UNCHANGED <<up, call, at, tried, handlers, delivered, stumbled, kills>>

-----------------------------------------------------------------------------
(* The proxies.                                                            *)

\* signFn returned a token or an error.  A gRPC error is an answer like any other
\* to nginx; an answer that comes after the timeout goes nowhere.
SignReturns(c, p) ==
  /\ <<c, p>> \in handlers
  /\ handlers' = handlers \ {<<c, p>>}
  /\ IF call[c] = "sent" /\ at[c] = p
       THEN /\ \E a \in {"token", "error"} : call' = [call EXCEPT ![c] = a]
            /\ at' = [at EXCEPT ![c] = None]
       ELSE UNCHANGED <<call, at>>
  /\ UNCHANGED <<up, unavailable, tried, delivered, stumbled, kills>>

Kill(p) ==
  /\ p \in up
  /\ kills < MaxKills
  /\ kills' = kills + 1
  /\ up' = up \ {p}
  /\ stumbled' = stumbled \cup {p}
  /\ handlers' = {h \in handlers : h[2] # p}
  /\ UNCHANGED <<unavailable, call, at, tried, delivered>>

\* main has listened again (ListenAndServeTCP).
ProxyRestarts(p) ==
  /\ p \notin up
  /\ \A c \in Calls : at[c] # p      \* its old connections have broken by then
  /\ up' = up \cup {p}
  /\ UNCHANGED <<unavailable, call, at, tried, handlers, delivered, stumbled, kills>>

-----------------------------------------------------------------------------
NginxStep(c) ==
  \/ \E p \in Proxies : Connect(c, p) \/ ConnectFails(c, p)
  \/ NoLiveUpstream(c) \/ ConnectionLost(c) \/ ReadTimeout(c)

Next ==
  \/ \E c \in Calls : Begin(c) \/ NginxStep(c)
  \/ \E c \in Calls, p \in Proxies : SignReturns(c, p)
  \/ \E p \in Proxies : Available(p) \/ Kill(p) \/ ProxyRestarts(p)

Spec == Init /\ [][Next]_vars

\* nginx works and its clock runs.  Nothing makes a handler return: its HTTP
\* client has no timeout.
FairSpec == Spec /\ \A c \in Calls : WF_vars(NginxStep(c))

-----------------------------------------------------------------------------
(* Properties.                                                             *)

\* README.md:204, "no single proxy failure halts signing": as long as one proxy has
\* neither died nor let a call time out, every call that was answered had reached a
\* proxy, however many of the others died, came back or timed out before.
FailoverReachesProxy ==
  \A c \in Calls :
    call[c] \in Answers /\ stumbled # Proxies => delivered[c] # {}

\* No call is executed by two proxies: failover never draws and spends the nonces
\* of the signers, nor issues a token, twice for one call.
ExecutedOnce == \A c \in Calls : Cardinality(delivered[c]) <= 1

\* Every call is answered, proxies that die and handlers that never return
\* included.
CallAnswered == \A c \in Calls : call[c] = "choose" ~> call[c] \in Answers
=============================================================================
