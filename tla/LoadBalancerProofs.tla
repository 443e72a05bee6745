------------------------- MODULE LoadBalancerProofs -------------------------
(***************************************************************************)
(* Failover reaches a proxy and never executes a call twice: for any       *)
(* number of proxies, calls and kills.                                     *)
(***************************************************************************)
EXTENDS LoadBalancer, FiniteSetTheorems, TLAPS

\* The types hold of every state nginx and the proxies reach; a handler never runs in
\* a process that is gone.
THEOREM BalancerTypeCorrect == Spec => []TypeOK
<1> USE LoadBalancerAssumption DEF TypeOK, Answers
<1>1. Init => TypeOK
  BY DEF Init
<1>2. TypeOK /\ [Next]_vars => TypeOK'
  <2> SUFFICES ASSUME TypeOK, [Next]_vars PROVE TypeOK'
    OBVIOUS
  <2>1. CASE UNCHANGED vars
    BY <2>1 DEF vars
  <2>2. ASSUME NEW c \in Calls, Begin(c) PROVE TypeOK'
    BY <2>2 DEF Begin
  <2>3. ASSUME NEW c \in Calls, NEW p \in Proxies, Connect(c, p) PROVE TypeOK'
    BY <2>3 DEF Connect, Candidates
  <2>4. ASSUME NEW c \in Calls, NEW p \in Proxies, ConnectFails(c, p) PROVE TypeOK'
    BY <2>4 DEF ConnectFails
  <2>5. ASSUME NEW c \in Calls, NoLiveUpstream(c) PROVE TypeOK'
    BY <2>5 DEF NoLiveUpstream
  <2>6. ASSUME NEW c \in Calls, ConnectionLost(c) PROVE TypeOK'
    BY <2>6 DEF ConnectionLost
  <2>7. ASSUME NEW c \in Calls, ReadTimeout(c) PROVE TypeOK'
    BY <2>7 DEF ReadTimeout
  <2>8. ASSUME NEW p \in Proxies, Available(p) PROVE TypeOK'
    BY <2>8 DEF Available
  <2>9. ASSUME NEW c \in Calls, NEW p \in Proxies, SignReturns(c, p) PROVE TypeOK'
    <3>1. CASE call[c] = "sent" /\ at[c] = p
      BY <2>9, <3>1 DEF SignReturns
    <3>2. CASE ~(call[c] = "sent" /\ at[c] = p)
      BY <2>9, <3>2 DEF SignReturns
    <3> QED
      BY <3>1, <3>2
  <2>10. ASSUME NEW p \in Proxies, Kill(p) PROVE TypeOK'
    BY <2>10 DEF Kill
  <2>11. ASSUME NEW p \in Proxies, ProxyRestarts(p) PROVE TypeOK'
    BY <2>11 DEF ProxyRestarts
  <2> QED
    BY <2>1, <2>2, <2>3, <2>4, <2>5, <2>6, <2>7, <2>8, <2>9, <2>10, <2>11
    DEF Next, NginxStep
<1> QED
  BY <1>1, <1>2, PTL DEF Spec

\* Whatever nginx avoids, and whatever does not listen, has failed before.
BlameJustified ==
  /\ unavailable \subseteq stumbled
  /\ Proxies \ up \subseteq stumbled
  /\ \A c \in Calls : tried[c] \subseteq stumbled

\* A request is delivered once, when it is sent; a call that ends without having been
\* sent found all proxies failed.
Delivery ==
  \A c \in Calls :
    /\ call[c] \in {"none", "choose"} => delivered[c] = {}
    /\ call[c] \in {"sent", "token", "error", "timeout"} => delivered[c] # {}
    /\ call[c] = "bad_gateway" /\ delivered[c] = {} => stumbled = Proxies
    /\ \A p, q \in delivered[c] : p = q

\* The inductive invariant.
BalancerInv == TypeOK /\ BlameJustified /\ Delivery

\* The inductive invariant holds of every reachable state.
THEOREM BalancerInvariance == Spec => []BalancerInv
<1> USE LoadBalancerAssumption
<1>1. Init => BlameJustified /\ Delivery
  BY DEF Init, BlameJustified, Delivery
<1>2. BalancerInv /\ TypeOK' /\ [Next]_vars => (BlameJustified /\ Delivery)'
  <2> SUFFICES ASSUME TypeOK, BlameJustified, Delivery, TypeOK', [Next]_vars
               PROVE  BlameJustified' /\ Delivery'
    BY DEF BalancerInv
  <2> USE DEF TypeOK, Answers, BlameJustified, Delivery
  <2>1. CASE UNCHANGED vars
    BY <2>1 DEF vars
  <2>2. ASSUME NEW c \in Calls, Begin(c) PROVE BlameJustified' /\ Delivery'
    BY <2>2 DEF Begin
  <2>3. ASSUME NEW c \in Calls, NEW p \in Proxies, Connect(c, p)
        PROVE  BlameJustified' /\ Delivery'
    BY <2>3 DEF Connect, Candidates
  <2>4. ASSUME NEW c \in Calls, NEW p \in Proxies, ConnectFails(c, p)
        PROVE  BlameJustified' /\ Delivery'
    BY <2>4 DEF ConnectFails, Candidates
  <2>5. ASSUME NEW c \in Calls, NoLiveUpstream(c) PROVE BlameJustified' /\ Delivery'
    <3>1. Proxies = stumbled
      BY <2>5 DEF NoLiveUpstream, Candidates
    <3>2. /\ call' = [call EXCEPT ![c] = "bad_gateway"]
          /\ UNCHANGED <<up, unavailable, tried, delivered, stumbled>>
      BY <2>5 DEF NoLiveUpstream
    <3>3. BlameJustified'
      BY <3>2
    <3>4. Delivery'
      BY <3>1, <3>2
    <3> QED
      BY <3>3, <3>4
  <2>6. ASSUME NEW c \in Calls, ConnectionLost(c) PROVE BlameJustified' /\ Delivery'
    BY <2>6 DEF ConnectionLost
  <2>7. ASSUME NEW c \in Calls, ReadTimeout(c) PROVE BlameJustified' /\ Delivery'
    BY <2>7 DEF ReadTimeout
  <2>8. ASSUME NEW p \in Proxies, Available(p) PROVE BlameJustified' /\ Delivery'
    BY <2>8 DEF Available
  <2>9. ASSUME NEW c \in Calls, NEW p \in Proxies, SignReturns(c, p)
        PROVE  BlameJustified' /\ Delivery'
    BY <2>9 DEF SignReturns
  <2>10. ASSUME NEW p \in Proxies, Kill(p) PROVE BlameJustified' /\ Delivery'
    BY <2>10 DEF Kill
  <2>11. ASSUME NEW p \in Proxies, ProxyRestarts(p) PROVE BlameJustified' /\ Delivery'
    BY <2>11 DEF ProxyRestarts
  <2> QED
    BY <2>1, <2>2, <2>3, <2>4, <2>5, <2>6, <2>7, <2>8, <2>9, <2>10, <2>11
    DEF Next, NginxStep
<1> QED
  BY <1>1, <1>2, BalancerTypeCorrect, PTL DEF Spec, BalancerInv

\* A call is answered without having reached a proxy only when every proxy has died or
\* let a call time out.
THEOREM FailoverWorks == Spec => []FailoverReachesProxy
<1>1. BalancerInv => FailoverReachesProxy
  BY DEF BalancerInv, Delivery, FailoverReachesProxy, Answers
<1> QED
  BY <1>1, BalancerInvariance, PTL

\* nginx never has one call executed by two proxies.
THEOREM NeverExecutedTwice == Spec => []ExecutedOnce
<1>1. BalancerInv => ExecutedOnce
  <2> SUFFICES ASSUME BalancerInv, NEW c \in Calls
               PROVE  Cardinality(delivered[c]) <= 1
    BY DEF ExecutedOnce
  <2>1. CASE delivered[c] = {}
    BY <2>1, FS_EmptySet
  <2>2. CASE delivered[c] # {}
    <3>1. PICK p : p \in delivered[c]
      BY <2>2
    <3>2. delivered[c] = {p}
      BY <3>1 DEF BalancerInv, Delivery
    <3>3. Cardinality({p}) = 1
      BY FS_Singleton
    <3> QED
      BY <3>2, <3>3
  <2> QED
    BY <2>1, <2>2
<1> QED
  BY <1>1, BalancerInvariance, PTL
=============================================================================
