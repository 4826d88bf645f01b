-------------------------- MODULE DashboardProofs --------------------------
(***************************************************************************)
(* What the dashboard's web server keeps right about the wallet RPC, for   *)
(* any number of requests, names and processes.                            *)
(***************************************************************************)
EXTENDS Dashboard, TLAPS

\* The kinds of values do not mix.
Distinct ==
    /\ None \notin Pids \cup Names
    /\ WalletPids \cap MinerPids = {}
    /\ None \notin WalletOps \cup MiningOps

\* The wallet RPC's processes and the variable that tracks them
ProcInv ==
    /\ up => started
    /\ ~started => \A w \in WalletPids : proc[w] = "unborn"
    /\ ~up => \A w \in WalletPids : proc[w] # "alive"
    /\ up => \A w \in WalletPids :
                 proc[w] \in {"alive", "signalled", "exited"} => walletRpcProcess = w
    /\ ~Serving => wallet = None

WalletRequests == {r \in Requests : req[r].op \in WalletOps}

\* How far a handler is, and what it has seen by then
ReqGood(q) ==
    /\ q.pc \in {"sent", "ok", "error", "seed", "address"} => q.op \in WalletOps
    /\ q.pc \in {"stopping", "start", "fallback"} => q.op \in MiningOps
    /\ q.pc = "idle" => q.op = None
    /\ q.pc \in {"idle", "sent", "ok", "error", "stopping", "start", "fallback"}
        => q.seed = None /\ q.address = None
    /\ q.op = "close" => q.name = None

Own(q) == {q.seed, q.address} \subseteq {q.name, None}

ReqInv == \A r \in Requests : ReqGood(req[r]) /\ (r \notin overlap => Own(req[r]))

\* A request that no other has overlapped is the only one, and the wallet it
\* opened is still there.
AloneInv ==
    \A r \in InFlight(WalletOps) \ overlap :
        /\ InFlight(WalletOps) = {r}
        /\ req[r].pc \in {"ok", "seed", "address"} => wallet \in {req[r].name, None}

\* The name is right, or about to be set.
NameInv ==
    overlap \cap WalletRequests = {} /\ wallet # None =>
        \/ currentWalletName \in {wallet, None}
        \/ \E r \in InFlight(WalletOps) : req[r].pc = "ok"

DInv == TypeOK /\ ProcInv /\ ReqInv /\ AloneInv /\ NameInv

\* The inductive invariant holds when the server is started.
THEOREM DashboardInit == ASSUME Distinct PROVE Init => DInv
  <1> SUFFICES ASSUME Init PROVE DInv
    OBVIOUS
  <1>1. TypeOK
    BY DEF Init, TypeOK, ProcStates, Request, Idle
  <1>2. ProcInv
    BY DEF Init, ProcInv, Serving, Running, Pids
  <1>3. ReqInv
    BY DEF Init, ReqInv, ReqGood, Own, Idle
  <1>4. AloneInv /\ NameInv
    BY DEF Init, AloneInv, NameInv, InFlight, Idle
  <1> QED
    BY <1>1, <1>2, <1>3, <1>4 DEF DInv

\* What a request's arrival does to the requests: it keeps the handlers'
\* progress well-formed, and marks every request it overlaps.
LEMMA BeginKeeps ==
    ASSUME Distinct, TypeOK, ReqInv, AloneInv,
           NEW r \in Requests, NEW op \in WalletOps \cup MiningOps,
           NEW n \in Names \cup {None}, NEW pc,
           op \in WalletOps => pc = "sent",
           op \in MiningOps => pc = "stopping",
           op = "close" => n = None,
           Begin(r, op, n, pc), wallet' = wallet
    PROVE  /\ req' \in [Requests -> Request] /\ overlap' \subseteq Requests
           /\ ReqInv' /\ AloneInv'
           /\ overlap \subseteq overlap'
           /\ InFlight(WalletOps) \subseteq InFlight(WalletOps)'
           /\ WalletRequests \subseteq WalletRequests'
           /\ \A s \in InFlight(WalletOps) : req'[s] = req[s]
  <1> DEFINE ops == IF op \in WalletOps THEN WalletOps ELSE MiningOps
  <1>0. WalletOps \cap MiningOps = {}
    BY DEF WalletOps, MiningOps
  <1>1. /\ req[r].pc = "idle" /\ req[r].op = None
        /\ req[r].seed = None /\ req[r].address = None
    BY DEF Begin, At, ReqInv, ReqGood
  <1>2. req' = [req EXCEPT ![r] = [op |-> op, name |-> n, pc |-> pc,
                                   seed |-> None, address |-> None]]
    BY <1>1 DEF Begin, TypeOK, Request
  <1>3. req' \in [Requests -> Request]
    BY <1>2 DEF TypeOK, Request
  <1>4. \A s \in Requests : s # r => req'[s] = req[s]
    BY <1>2 DEF TypeOK
  <1>5. /\ req'[r].op = op /\ req'[r].name = n /\ req'[r].pc = pc
        /\ req'[r].seed = None /\ req'[r].address = None
    BY <1>2 DEF TypeOK
  <1>6. overlap' \subseteq Requests /\ overlap \subseteq overlap'
    BY DEF Begin, InFlight, TypeOK
  <1>7. ReqInv'
    <2>1. ReqGood(req'[r]) /\ Own(req'[r])
      BY <1>0, <1>5 DEF ReqGood, Own, WalletOps, MiningOps
    <2>2. \A s \in Requests : s # r =>
              ReqGood(req'[s]) /\ (s \notin overlap' => Own(req'[s]))
      BY <1>4, <1>6 DEF ReqInv
    <2> QED
      BY <2>1, <2>2 DEF ReqInv
  <1>8. /\ InFlight(WalletOps)' = IF op \in WalletOps
                                  THEN InFlight(WalletOps) \cup {r}
                                  ELSE InFlight(WalletOps)
        /\ r \notin InFlight(WalletOps)
    BY <1>0, <1>1, <1>4, <1>5 DEF InFlight
  <1>9. AloneInv'
    <2> SUFFICES ASSUME NEW s \in InFlight(WalletOps)', s \notin overlap'
                 PROVE  /\ InFlight(WalletOps)' = {s}
                        /\ req'[s].pc \in {"ok", "seed", "address"}
                            => wallet \in {req'[s].name, None}
      BY DEF AloneInv
    <2>1. CASE op \notin WalletOps
      <3>1. s \in InFlight(WalletOps) \ overlap /\ s # r /\ s \in Requests
        BY <1>6, <1>8, <2>1 DEF InFlight
      <3> QED
        BY <1>4, <1>8, <2>1, <3>1 DEF AloneInv
    <2>2. CASE op \in WalletOps
      <3>1. overlap' = IF InFlight(WalletOps) = {} THEN overlap
                       ELSE overlap \cup InFlight(WalletOps) \cup {r}
        BY <2>2 DEF Begin
      <3>2. InFlight(WalletOps) = {} /\ s = r
        BY <1>8, <2>2, <3>1
      <3> QED
        BY <1>5, <1>8, <2>2, <3>2
    <2> QED
      BY <2>1, <2>2
  <1>10. WalletRequests \subseteq WalletRequests'
    BY <1>1, <1>4 DEF WalletRequests, Distinct
  <1> QED
    BY <1>3, <1>4, <1>6, <1>7, <1>8, <1>9, <1>10 DEF InFlight

\* What one step of a handler does to the requests, when the step leaves the
\* wallet alone or puts the request's own wallet there.
LEMMA StepKeeps ==
    ASSUME TypeOK, ReqInv, AloneInv,
           NEW r \in Requests, NEW q \in Request,
           req[r].pc \notin {"idle", "done"}, q.pc # "idle",
           req' = [req EXCEPT ![r] = q], overlap' = overlap,
           q.op = req[r].op, q.name = req[r].name,
           ReqGood(q), r \notin overlap => Own(q),
           wallet' \in Names \cup {None},
           \/ wallet' = wallet
           \/ wallet' = q.name /\ q.op \in WalletOps,
           r \notin overlap /\ q.op \in WalletOps
             /\ q.pc \in {"ok", "seed", "address"} => wallet' \in {q.name, None}
    PROVE  /\ req' \in [Requests -> Request]
           /\ ReqInv' /\ AloneInv'
           /\ InFlight(WalletOps)' \subseteq InFlight(WalletOps)
           /\ WalletRequests' = WalletRequests
           /\ req'[r] = q
           /\ \A s \in Requests : s # r => req'[s] = req[s]
  <1>1. req' \in [Requests -> Request] /\ req'[r] = q
    BY DEF TypeOK
  <1>2. \A s \in Requests : s # r => req'[s] = req[s]
    BY DEF TypeOK
  <1>3. ReqInv'
    BY <1>1, <1>2 DEF ReqInv
  <1>4. /\ InFlight(WalletOps)' \subseteq InFlight(WalletOps)
        /\ InFlight(WalletOps)' \subseteq Requests
    BY <1>1, <1>2 DEF InFlight
  <1>5. WalletRequests' = WalletRequests
    BY <1>1, <1>2 DEF WalletRequests
  <1>6. ASSUME NEW s \in InFlight(WalletOps)', s \notin overlap
        PROVE  /\ InFlight(WalletOps)' = {s}
               /\ req'[s].pc \in {"ok", "seed", "address"}
                   => wallet' \in {req'[s].name, None}
    <2>1. InFlight(WalletOps) = {s} /\ s \in Requests
      BY <1>4, <1>6 DEF AloneInv
    <2>2. InFlight(WalletOps)' = {s}
      BY <1>4, <1>6, <2>1
    <2>3. req'[s].op \in WalletOps
      BY <1>6 DEF InFlight
    <2>4. CASE s = r
      BY <1>1, <1>6, <2>2, <2>3, <2>4
    <2>5. CASE s # r
      <3>1. req'[s] = req[s]
        BY <1>2, <2>1, <2>5
      <3>2. q.op \notin WalletOps
        BY <2>1, <2>5 DEF InFlight
      <3> QED
        BY <1>6, <2>1, <2>2, <3>1, <3>2 DEF AloneInv
    <2> QED
      BY <2>4, <2>5
  <1>7. AloneInv'
    BY <1>6 DEF AloneInv
  <1> QED
    BY <1>1, <1>2, <1>3, <1>4, <1>5, <1>7

\* A step that only moves a handler on, seen as a new record for its request.
LEMMA GotoKeeps ==
    ASSUME TypeOK, ReqInv, AloneInv, NEW r \in Requests,
           NEW pc \in {"ok", "error", "seed", "address", "start", "fallback", "done"},
           req[r].pc \notin {"idle", "done", "seed", "address"} \/ pc = "done",
           req[r].pc \notin {"idle", "done"},
           pc \in {"ok", "error", "seed", "address"} => req[r].op \in WalletOps,
           pc \in {"start", "fallback"} => req[r].op \in MiningOps,
           Goto(r, pc), overlap' = overlap,
           wallet' \in Names \cup {None},
           \/ wallet' = wallet
           \/ wallet' = req[r].name /\ req[r].op \in WalletOps,
           r \notin overlap /\ req[r].op \in WalletOps
             /\ pc \in {"ok", "seed", "address"} => wallet' \in {req[r].name, None}
    PROVE  /\ req' \in [Requests -> Request]
           /\ ReqInv' /\ AloneInv'
           /\ InFlight(WalletOps)' \subseteq InFlight(WalletOps)
           /\ WalletRequests' = WalletRequests
           /\ req'[r].pc = pc /\ req'[r].op = req[r].op
           /\ \A s \in Requests : s # r => req'[s] = req[s]
  <1> DEFINE q == [op |-> req[r].op, name |-> req[r].name, pc |-> pc,
                   seed |-> req[r].seed, address |-> req[r].address]
  <1>1. req[r] \in Request /\ ReqGood(req[r]) /\ (r \notin overlap => Own(req[r]))
    BY DEF TypeOK, ReqInv
  <1>2. q \in Request
    BY <1>1 DEF Request
  <1>3. req' = [req EXCEPT ![r] = q]
    <2>1. [req[r] EXCEPT !.pc = pc] = q
      BY <1>1 DEF Request
    <2>2. req' = [req EXCEPT ![r] = [req[r] EXCEPT !.pc = pc]]
      BY DEF Goto
    <2> QED
      BY <2>1, <2>2
  <1>4. /\ q.op = req[r].op /\ q.name = req[r].name /\ q.pc = pc /\ pc # "idle"
        /\ q.seed = req[r].seed /\ q.address = req[r].address
    OBVIOUS
  <1> HIDE DEF q
  <1>5. ReqGood(q)
    <2>1. pc \in {"ok", "error", "start", "fallback"}
            => req[r].seed = None /\ req[r].address = None
      <3>1. req[r].pc \in {"sent", "ok", "error", "stopping", "start", "fallback"}
            \/ pc = "done"
        BY <1>1 DEF Request
      <3> QED
        BY <1>1, <3>1 DEF ReqGood
    <2> QED
      BY <1>1, <1>4, <2>1 DEF ReqGood
  <1>6. r \notin overlap => Own(q)
    BY <1>1, <1>4 DEF Own
  <1> QED
    BY <1>2, <1>3, <1>4, <1>5, <1>6, StepKeeps

\* The variables of the wallet RPC's processes, when a step starts one or not.
LEMMA StartKeeps ==
    ASSUME Distinct, TypeOK, ProcInv, up', started',
           startWalletRpc, wallet' = wallet,
           up \/ ~started
    PROVE  /\ proc' \in [Pids -> ProcStates]
           /\ walletRpcProcess' \in WalletPids \cup {None}
           /\ ProcInv'
  <1>1. CASE UNCHANGED <<proc, walletRpcProcess>>
    BY <1>1 DEF ProcInv, TypeOK, Serving, Running
  <1>2. ASSUME walletRpcProcess = None,
               NEW w \in WalletPids, Spawned(w), walletRpcProcess' = w
        PROVE  /\ proc' \in [Pids -> ProcStates]
               /\ walletRpcProcess' \in WalletPids \cup {None}
               /\ ProcInv'
    <2>1. /\ proc' \in [Pids -> ProcStates] /\ proc'[w] = "alive"
          /\ \A v \in WalletPids : v # w => proc'[v] = proc[v]
      BY <1>2 DEF Spawned, TypeOK, ProcStates, Pids
    <2>2. \A v \in WalletPids : proc[v] \notin {"alive", "signalled", "exited"}
      BY <1>2 DEF ProcInv, Distinct, Pids
    <2>3. Serving'
      BY <2>1 DEF Serving, Running
    <2> QED
      BY <1>2, <2>1, <2>2, <2>3 DEF ProcInv
  <1> QED
    BY <1>1, <1>2 DEF startWalletRpc

\* The name stays right when the requests only grow.
LEMMA NameKept ==
    ASSUME NameInv, wallet' \in {wallet, None},
           currentWalletName' = currentWalletName,
           overlap \subseteq overlap', WalletRequests \subseteq WalletRequests',
           \A r \in InFlight(WalletOps) : req[r].pc = "ok" =>
               \/ r \in InFlight(WalletOps)' /\ req'[r] = req[r]
               \/ wallet' = None
    PROVE  NameInv'
  <1> SUFFICES ASSUME overlap' \cap WalletRequests' = {}, wallet' # None
               PROVE  \/ currentWalletName \in {wallet', None}
                      \/ \E r \in InFlight(WalletOps)' : req'[r].pc = "ok"
    BY DEF NameInv
  <1>1. overlap \cap WalletRequests = {} /\ wallet' = wallet
    OBVIOUS
  <1> QED
    BY <1>1 DEF NameInv

\* Every step of the server, of its requests and of the processes preserves
\* the inductive invariant.
THEOREM DashboardNext == ASSUME Distinct PROVE DInv /\ [Next]_vars => DInv'
  <1> SUFFICES ASSUME DInv, [Next]_vars PROVE DInv'
    OBVIOUS
  <1> USE DEF DInv, globals
  <1>1. CASE Listen
    <2>1. ProcInv' /\ proc' \in [Pids -> ProcStates]
                   /\ walletRpcProcess' \in WalletPids \cup {None}
      BY <1>1, StartKeeps DEF Listen
    <2>2. TypeOK'
      BY <1>1, <2>1 DEF Listen, TypeOK
    <2>3. ReqInv' /\ AloneInv' /\ NameInv'
      BY <1>1 DEF Listen, ReqInv, AloneInv, NameInv, InFlight, WalletRequests
    <2> QED
      BY <2>1, <2>2, <2>3
  <1>2. CASE SigInt
    <2>1. proc' \in [Pids -> ProcStates]
      BY <1>2 DEF SigInt, Killed, TypeOK, Pids, ProcStates
    <2>2. TypeOK'
      BY <1>2, <2>1 DEF SigInt, TypeOK
    <2>3. \A w \in WalletPids :
              /\ proc'[w] # "alive"
              /\ proc[w] = "unborn" => proc'[w] = "unborn"
              /\ Running(w) <=> Running(w)'
      BY <1>2 DEF SigInt, Killed, TypeOK, Pids, ProcInv, Distinct, Running
    <2>4. ProcInv'
      BY <1>2, <2>3 DEF SigInt, ProcInv, Serving
    <2>5. ReqInv' /\ AloneInv' /\ NameInv'
      BY <1>2 DEF SigInt, ReqInv, AloneInv, NameInv, InFlight, WalletRequests
    <2> QED
      BY <2>2, <2>4, <2>5
  <1>3. ASSUME NEW r \in Requests, NEW op \in WalletOps \ {"close"},
               NEW n \in Names, WalletBegin(r, op, n)
        PROVE  DInv'
    <2>0. op \notin MiningOps /\ op # "close"
      BY DEF WalletOps, MiningOps
    <2>1. /\ req' \in [Requests -> Request] /\ overlap' \subseteq Requests
          /\ ReqInv' /\ AloneInv' /\ overlap \subseteq overlap'
          /\ InFlight(WalletOps) \subseteq InFlight(WalletOps)'
          /\ WalletRequests \subseteq WalletRequests'
          /\ \A s \in InFlight(WalletOps) : req'[s] = req[s]
      BY <1>3, <2>0, BeginKeeps DEF WalletBegin
    <2>2. up /\ started
      BY <1>3 DEF WalletBegin, Begin, At, ProcInv
    <2>3. ProcInv' /\ proc' \in [Pids -> ProcStates]
                   /\ walletRpcProcess' \in WalletPids \cup {None}
      BY <1>3, <2>2, StartKeeps DEF WalletBegin
    <2>4. TypeOK'
      BY <1>3, <2>1, <2>3 DEF WalletBegin, TypeOK
    <2>5. NameInv'
      BY <1>3, <2>1, NameKept DEF WalletBegin
    <2> QED
      BY <2>1, <2>3, <2>4, <2>5
  <1>4. ASSUME NEW r \in Requests, CloseBegin(r)
        PROVE  DInv'
    <2>0. "close" \in WalletOps /\ "close" \notin MiningOps
      BY DEF WalletOps, MiningOps
    <2>1. /\ req' \in [Requests -> Request] /\ overlap' \subseteq Requests
          /\ ReqInv' /\ AloneInv' /\ overlap \subseteq overlap'
          /\ InFlight(WalletOps) \subseteq InFlight(WalletOps)'
          /\ WalletRequests \subseteq WalletRequests'
          /\ \A s \in InFlight(WalletOps) : req'[s] = req[s]
      BY <1>4, <2>0, BeginKeeps DEF CloseBegin
    <2>2. TypeOK' /\ ProcInv'
      BY <1>4, <2>1 DEF CloseBegin, TypeOK, ProcInv, Serving, Running
    <2>3. NameInv'
      BY <1>4, <2>1, NameKept DEF CloseBegin
    <2> QED
      BY <2>1, <2>2, <2>3
  <1>5. ASSUME NEW r \in Requests, NEW op \in MiningOps, MineBegin(r, op)
        PROVE  DInv'
    <2>0. op \notin WalletOps /\ op # "close"
      BY DEF WalletOps, MiningOps
    <2>1. /\ req' \in [Requests -> Request] /\ overlap' \subseteq Requests
          /\ ReqInv' /\ AloneInv' /\ overlap \subseteq overlap'
          /\ InFlight(WalletOps) \subseteq InFlight(WalletOps)'
          /\ WalletRequests \subseteq WalletRequests'
          /\ \A s \in InFlight(WalletOps) : req'[s] = req[s]
      BY <1>5, <2>0, BeginKeeps DEF MineBegin
    <2>2. /\ proc' \in [Pids -> ProcStates]
          /\ xmrigProcess' \in MinerPids \cup {None}
      BY <1>5 DEF MineBegin, KillMiner, Killed, TypeOK, Pids, ProcStates
    <2>3. \A w \in WalletPids : proc'[w] = proc[w]
      BY <1>5 DEF MineBegin, KillMiner, Killed, TypeOK, Pids, Distinct
    <2>4. TypeOK'
      BY <1>5, <2>1, <2>2 DEF MineBegin, TypeOK
    <2>5. ProcInv'
      BY <1>5, <2>3 DEF MineBegin, ProcInv, Serving, Running
    <2>6. NameInv'
      BY <1>5, <2>1, NameKept DEF MineBegin
    <2> QED
      BY <2>1, <2>4, <2>5, <2>6
  <1>6. ASSUME NEW r \in Requests, RpcHandles(r)
        PROVE  DInv'
    <2>1. /\ req[r].pc = "sent" /\ req[r].op \in WalletOps /\ Serving
          /\ req[r].name \in Names \cup {None} /\ wallet \in Names \cup {None}
          /\ UNCHANGED <<up, started, proc, globals, builtin, overlap>>
      BY <1>6 DEF RpcHandles, At, TypeOK, Request
    <2>2. ProcInv'
      BY <2>1 DEF ProcInv, Serving, Running
    <2>3. CASE Goto(r, "error") /\ wallet' = wallet
      <3>1. /\ req' \in [Requests -> Request] /\ ReqInv' /\ AloneInv'
            /\ WalletRequests' = WalletRequests
            /\ req'[r].pc = "error" /\ req'[r].op = req[r].op
            /\ \A s \in Requests : s # r => req'[s] = req[s]
        BY <2>1, <2>3, GotoKeeps
      <3>2. TypeOK'
        BY <2>1, <2>3, <3>1 DEF TypeOK
      <3>3. NameInv'
        BY <2>1, <2>3, <3>1, NameKept DEF InFlight
      <3> QED
        BY <2>2, <3>1, <3>2, <3>3
    <2>4. CASE Goto(r, "ok") /\ wallet' = req[r].name
      <3>1. /\ req' \in [Requests -> Request] /\ ReqInv' /\ AloneInv'
            /\ WalletRequests' = WalletRequests
            /\ req'[r].pc = "ok" /\ req'[r].op = req[r].op
            /\ \A s \in Requests : s # r => req'[s] = req[s]
        BY <2>1, <2>4, GotoKeeps
      <3>2. TypeOK'
        BY <2>1, <2>4, <3>1 DEF TypeOK
      <3>3. r \in InFlight(WalletOps)'
        BY <2>1, <3>1 DEF InFlight
      <3>4. NameInv'
        BY <3>1, <3>3 DEF NameInv
      <3> QED
        BY <2>2, <3>1, <3>2, <3>4
    <2> QED
      BY <1>6, <2>3, <2>4 DEF RpcHandles
  <1>7. ASSUME NEW r \in Requests, RpcAnswered(r)
        PROVE  DInv'
    <2> DEFINE pc == IF req[r].pc = "ok" THEN AfterAnswer(req[r].op) ELSE "done"
    <2>1. /\ req[r].pc \in {"ok", "error"} /\ req[r].op \in WalletOps
          /\ req[r].name \in Names \cup {None} /\ wallet \in Names \cup {None}
          /\ UNCHANGED <<up, started, proc, walletRpcProcess, xmrigProcess,
                         xmrigConfig, wallet, builtin, overlap>>
      BY <1>7 DEF RpcAnswered, At, TypeOK, Request, ReqInv, ReqGood
    <2>2. ProcInv'
      BY <2>1 DEF ProcInv, Serving, Running
    <2>3. Goto(r, pc) /\ pc \in {"seed", "address", "done"}
          /\ (req[r].pc = "error" => pc = "done")
      BY <1>7 DEF RpcAnswered, AfterAnswer
    <2> HIDE DEF pc
    <2>4. r \in InFlight(WalletOps)
      BY <2>1 DEF InFlight
    <2>5. r \notin overlap =>
            /\ InFlight(WalletOps) = {r}
            /\ req[r].pc = "ok" => wallet \in {req[r].name, None}
      BY <2>1, <2>4 DEF AloneInv
    <2>6. /\ req' \in [Requests -> Request] /\ ReqInv' /\ AloneInv'
          /\ WalletRequests' = WalletRequests
      BY <2>1, <2>3, <2>5, GotoKeeps
    <2>7. TypeOK'
      BY <1>7, <2>1, <2>6 DEF RpcAnswered, TypeOK
    <2>8. NameInv'
      <3> SUFFICES ASSUME overlap \cap WalletRequests = {}, wallet # None
                   PROVE  currentWalletName' \in {wallet, None}
        BY <2>1, <2>6 DEF NameInv
      <3>1. r \notin overlap
        BY <2>1 DEF WalletRequests
      <3>2. CASE req[r].pc = "ok"
        BY <1>7, <2>5, <3>1, <3>2 DEF RpcAnswered
      <3>3. CASE req[r].pc = "error"
        <4>1. currentWalletName \in {wallet, None}
          BY <2>5, <3>1, <3>3 DEF NameInv
        <4>2. req[r].op = "close" => req[r].name = None
          BY DEF ReqInv, ReqGood
        <4> QED
          BY <1>7, <3>3, <4>1, <4>2 DEF RpcAnswered
      <3> QED
        BY <2>1, <3>2, <3>3
    <2> QED
      BY <2>2, <2>6, <2>7, <2>8
  <1>8. ASSUME NEW r \in Requests, RpcFails(r)
        PROVE  DInv'
    <2>1. /\ req[r].pc \in {"sent", "ok", "error", "seed", "address"}
          /\ req[r].pc # "sent" => ~Serving
          /\ req[r].op \in WalletOps /\ Goto(r, "done") /\ wallet \in Names \cup {None}
          /\ UNCHANGED <<up, started, proc, globals, wallet, builtin, overlap>>
      BY <1>8 DEF RpcFails, At, TypeOK
    <2>2. ProcInv' /\ (req[r].pc # "sent" => wallet = None)
      BY <2>1 DEF ProcInv, Serving, Running
    <2>3. /\ req' \in [Requests -> Request] /\ ReqInv' /\ AloneInv'
          /\ WalletRequests' = WalletRequests
          /\ \A s \in Requests : s # r => req'[s] = req[s]
      BY <2>1, GotoKeeps
    <2>4. TypeOK'
      BY <2>1, <2>3 DEF TypeOK
    <2>5. NameInv'
      BY <2>1, <2>2, <2>3, NameKept DEF InFlight
    <2> QED
      BY <2>2, <2>3, <2>4, <2>5
  <1>9. ASSUME NEW r \in Requests, NEW q \in Request,
               req[r].pc \in {"seed", "address"}, q.pc \in {"address", "done"},
               q.op = req[r].op, q.name = req[r].name,
               q.seed \in {req[r].seed, wallet}, q.address \in {req[r].address, wallet},
               req' = [req EXCEPT ![r] = q],
               UNCHANGED <<up, started, proc, globals, wallet, builtin, overlap>>
        PROVE  DInv'
    <2>1. /\ req[r].op \in WalletOps
          /\ r \notin overlap => Own(req[r])
          /\ req[r].op = "close" => req[r].name = None
      BY <1>9 DEF ReqInv, ReqGood
    <2>2. r \in InFlight(WalletOps)
      BY <1>9, <2>1 DEF InFlight
    <2>3. r \notin overlap => wallet \in {req[r].name, None}
      BY <1>9, <2>2 DEF AloneInv
    <2>4. wallet \in Names \cup {None}
      BY DEF TypeOK
    <2>5. ReqGood(q)
      BY <1>9, <2>1 DEF ReqGood
    <2>6. r \notin overlap => Own(q)
      BY <1>9, <2>1, <2>3 DEF Own
    <2>7. /\ req' \in [Requests -> Request] /\ ReqInv' /\ AloneInv'
          /\ WalletRequests' = WalletRequests
          /\ \A s \in Requests : s # r => req'[s] = req[s]
      <3>1. q.pc # "idle" /\ req[r].pc \notin {"idle", "done"}
        BY <1>9
      <3> QED
        BY <1>9, <2>3, <2>4, <2>5, <2>6, <3>1, StepKeeps
    <2>8. TypeOK' /\ ProcInv'
      BY <1>9, <2>7 DEF TypeOK, ProcInv, Serving, Running
    <2>9. NameInv'
      BY <1>9, <2>7, NameKept DEF InFlight
    <2> QED
      BY <2>7, <2>8, <2>9
  <1>10. ASSUME NEW r \in Requests, QueryKey(r)
         PROVE  DInv'
    <2> DEFINE p == [op |-> req[r].op, name |-> req[r].name, pc |-> req[r].pc,
                     seed |-> wallet, address |-> req[r].address]
               q == [op |-> req[r].op, name |-> req[r].name, pc |-> "address",
                     seed |-> wallet, address |-> req[r].address]
    <2>1. [req[r] EXCEPT !.seed = wallet] = p
      BY DEF TypeOK, Request
    <2>2. req' = [[req EXCEPT ![r] = [req[r] EXCEPT !.seed = wallet]]
                     EXCEPT ![r].pc = "address"]
      BY <1>10 DEF QueryKey
    <2>3. req' = [req EXCEPT ![r] = [p EXCEPT !.pc = "address"]]
      BY <2>1, <2>2 DEF TypeOK
    <2>4. [p EXCEPT !.pc = "address"] = q
      OBVIOUS
    <2>5. /\ q.op = req[r].op /\ q.name = req[r].name /\ q.pc = "address"
          /\ q.seed = wallet /\ q.address = req[r].address
      OBVIOUS
    <2>6. q \in Request
      BY DEF TypeOK, Request
    <2> HIDE DEF p, q
    <2>7. req[r].pc = "seed" /\ Serving
          /\ UNCHANGED <<up, started, proc, globals, wallet, builtin, overlap>>
      BY <1>10 DEF QueryKey, At
    <2> QED
      BY <1>9, <2>3, <2>4, <2>5, <2>6, <2>7
  <1>11. ASSUME NEW r \in Requests, GetAddress(r)
         PROVE  DInv'
    <2> DEFINE p == [op |-> req[r].op, name |-> req[r].name, pc |-> req[r].pc,
                     seed |-> req[r].seed, address |-> wallet]
               q == [op |-> req[r].op, name |-> req[r].name, pc |-> "done",
                     seed |-> req[r].seed, address |-> wallet]
    <2>1. [req[r] EXCEPT !.address = wallet] = p
      BY DEF TypeOK, Request
    <2>2. req' = [[req EXCEPT ![r] = [req[r] EXCEPT !.address = wallet]]
                     EXCEPT ![r].pc = "done"]
      BY <1>11 DEF GetAddress
    <2>3. req' = [req EXCEPT ![r] = [p EXCEPT !.pc = "done"]]
      BY <2>1, <2>2 DEF TypeOK
    <2>4. [p EXCEPT !.pc = "done"] = q
      OBVIOUS
    <2>5. /\ q.op = req[r].op /\ q.name = req[r].name /\ q.pc = "done"
          /\ q.seed = req[r].seed /\ q.address = wallet
      OBVIOUS
    <2>6. q \in Request
      BY DEF TypeOK, Request
    <2> HIDE DEF p, q
    <2>7. req[r].pc = "address" /\ Serving
          /\ UNCHANGED <<up, started, proc, globals, wallet, builtin, overlap>>
      BY <1>11 DEF GetAddress, At
    <2> QED
      BY <1>9, <2>3, <2>4, <2>5, <2>6, <2>7
  <1>12. ASSUME NEW r \in Requests,
                StopMining(r) \/ StartMiner(r) \/ StartBuiltin(r)
         PROVE  DInv'
    <2>1. /\ req[r].pc \in {"stopping", "start", "fallback"} /\ req[r].op \in MiningOps
          /\ wallet \in Names \cup {None}
          /\ UNCHANGED <<up, started, walletRpcProcess, currentWalletName, wallet,
                         overlap>>
      BY <1>12 DEF StopMining, StartMiner, StartBuiltin, At, TypeOK, ReqInv, ReqGood
    <2>2. PICK pc \in {"start", "fallback", "done"} : Goto(r, pc)
      BY <1>12 DEF StopMining, StartMiner, StartBuiltin
    <2>3. req[r].op \notin WalletOps
      BY <2>1 DEF WalletOps, MiningOps
    <2>4. /\ req' \in [Requests -> Request] /\ ReqInv' /\ AloneInv'
          /\ WalletRequests' = WalletRequests
          /\ \A s \in Requests : s # r => req'[s] = req[s]
      BY <2>1, <2>2, <2>3, GotoKeeps
    <2>5. /\ proc' \in [Pids -> ProcStates]
          /\ xmrigProcess' \in MinerPids \cup {None}
          /\ xmrigConfig' \in Requests \cup {None} /\ builtin' \in BOOLEAN
      BY <1>12 DEF StopMining, StartMiner, StartBuiltin, Spawned, TypeOK, Pids,
                   ProcStates
    <2>6. \A w \in WalletPids : proc'[w] = proc[w]
      BY <1>12 DEF StopMining, StartMiner, StartBuiltin, Spawned, TypeOK, Pids,
                   Distinct
    <2>7. TypeOK'
      BY <2>1, <2>4, <2>5 DEF TypeOK
    <2>8. ProcInv'
      BY <2>1, <2>6 DEF ProcInv, Serving, Running
    <2>9. NameInv'
      BY <2>1, <2>3, <2>4, NameKept DEF InFlight
    <2> QED
      BY <2>4, <2>7, <2>8, <2>9
  <1>13. ASSUME NEW w \in WalletPids, WalletRpcClosed(w)
         PROVE  DInv'
    <2>1. /\ up /\ proc[w] = "exited" /\ walletRpcProcess = w
          /\ \A v \in WalletPids : v # w =>
                 proc[v] \notin {"alive", "signalled", "exited"}
      BY <1>13 DEF WalletRpcClosed, ProcInv
    <2>2. /\ proc' \in [Pids -> ProcStates] /\ proc'[w] = "reaped"
          /\ \A v \in WalletPids : v # w => proc'[v] = proc[v]
      BY <1>13 DEF WalletRpcClosed, TypeOK, ProcStates, Pids
    <2>3. ~Serving
      BY <2>1 DEF Serving, Running
    <2>4. ProcInv'
      BY <1>13, <2>1, <2>2, <2>3 DEF WalletRpcClosed, ProcInv
    <2>5. TypeOK'
      BY <1>13, <2>2 DEF WalletRpcClosed, TypeOK
    <2>6. ReqInv' /\ AloneInv' /\ NameInv'
      BY <1>13 DEF WalletRpcClosed, ReqInv, AloneInv, NameInv, InFlight, WalletRequests
    <2> QED
      BY <2>4, <2>5, <2>6
  <1>14. ASSUME NEW m \in MinerPids, MinerExited(m)
         PROVE  DInv'
    <2>1. /\ proc' \in [Pids -> ProcStates]
          /\ \A w \in WalletPids : proc'[w] = proc[w]
      BY <1>14 DEF MinerExited, TypeOK, ProcStates, Pids, Distinct
    <2>2. TypeOK' /\ ProcInv'
      BY <1>14, <2>1 DEF MinerExited, TypeOK, ProcInv, Serving, Running
    <2>3. ReqInv' /\ AloneInv' /\ NameInv'
      BY <1>14 DEF MinerExited, ReqInv, AloneInv, NameInv, InFlight, WalletRequests
    <2> QED
      BY <2>2, <2>3
  <1>15. ASSUME NEW p \in Pids, Exit(p)
         PROVE  DInv'
    <2>1. /\ proc' \in [Pids -> ProcStates] /\ proc'[p] = "exited" /\ Running(p)
          /\ \A w \in WalletPids : w # p => proc'[w] = proc[w]
          /\ wallet' \in {wallet, None}
      BY <1>15 DEF Exit, TypeOK, ProcStates, Pids
    <2>2. TypeOK'
      BY <1>15, <2>1 DEF Exit, TypeOK
    <2>3. ProcInv'
      BY <1>15, <2>1 DEF Exit, ProcInv, Serving, Running
    <2>4. ReqInv' /\ AloneInv'
      BY <1>15, <2>1 DEF Exit, ReqInv, AloneInv, InFlight
    <2>5. NameInv'
      BY <1>15, <2>1, NameKept DEF Exit, InFlight, WalletRequests
    <2> QED
      BY <2>2, <2>3, <2>4, <2>5
  <1>16. CASE UNCHANGED vars
    BY <1>16 DEF vars, TypeOK, ProcInv, ReqInv, AloneInv, NameInv, InFlight,
                 WalletRequests, Serving, Running
  <1> QED
    BY <1>1, <1>2, <1>3, <1>4, <1>5, <1>6, <1>7, <1>8, <1>10, <1>11, <1>12,
       <1>13, <1>14, <1>15, <1>16 DEF Next

\* Whatever the requests and however often the wallet RPC ends, the running
\* one is the process the server tracks, and it is signalled before the
\* server ends.
THEOREM WalletRpcIsTracked == ASSUME Distinct PROVE Spec => []WalletRpcTracked
  <1>1. DInv => WalletRpcTracked
    BY DEF DInv, ProcInv, WalletRpcTracked, Running
  <1> QED
    BY <1>1, DashboardInit, DashboardNext, PTL DEF Spec

\* Between wallet requests that did not overlap, the name the server shows is
\* none or that of the wallet that is open.
THEOREM WalletNameIsRight == ASSUME Distinct PROVE Spec => []WalletNameRight
  <1>1. DInv => WalletNameRight
    BY DEF DInv, NameInv, WalletNameRight, WalletRequests
  <1> QED
    BY <1>1, DashboardInit, DashboardNext, PTL DEF Spec

\* A request that no other wallet request overlapped is answered with the seed
\* and the address of its own wallet.
THEOREM AnswersAreOwn == ASSUME Distinct PROVE Spec => []AnswerIsOwn
  <1>1. DInv => AnswerIsOwn
    BY DEF DInv, ReqInv, Own, AnswerIsOwn
  <1> QED
    BY <1>1, DashboardInit, DashboardNext, PTL DEF Spec
============================================================================
