----------------------------- MODULE Dashboard -----------------------------
(***************************************************************************)
(* The dashboard's web server, dashboard/server.js: it starts a wallet RPC *)
(* process for the wallet endpoints and an XMRig process for the mining    *)
(* endpoints, and keeps track of both in global variables.  Node.js runs   *)
(* one piece of a handler at a time, from one await to the next; an action *)
(* below is one such piece, or the part of a call that happens in another  *)
(* process.  Handlers of several requests, and the events of processes     *)
(* that end, come in between.                                              *)
(***************************************************************************)
CONSTANTS
    Requests,     \* the HTTP requests, each of them made at most once
    Names,        \* wallet names
    WalletPids,   \* the wallet RPC processes that may be spawned
    MinerPids,    \* the XMRig processes that may be spawned
    None          \* null

VARIABLES
    up,                 \* whether the server listens
    started,            \* whether its start-up code has run
    proc,               \* what became of each process
    walletRpcProcess, currentWalletName, xmrigProcess, xmrigConfig,
    wallet,             \* m_wallet of the wallet RPC process
    builtin,            \* whether the daemon's own miner runs
    req,                \* the requests, and how far their handlers are
    overlap             \* the requests that were served while another one
                        \* of the same kind (wallet or mining) was

globals == <<walletRpcProcess, currentWalletName, xmrigProcess, xmrigConfig>>
vars == <<up, started, proc, globals, wallet, builtin, req, overlap>>

Pids == WalletPids \cup MinerPids
\* "alive": running; "signalled": running, with a SIGTERM on its way;
\* "exited": ended, its exit or close event not handled yet
ProcStates == {"unborn", "alive", "signalled", "exited", "reaped"}
WalletOps == {"create", "open", "restore", "close"}
MiningOps == {"mine", "mine builtin", "stop"}

Request == [op : WalletOps \cup MiningOps \cup {None}, name : Names \cup {None},
            pc : {"idle", "sent", "ok", "error", "seed", "address",
                  "stopping", "start", "fallback", "done"},
            seed : Names \cup {None}, address : Names \cup {None}]

Idle == [op |-> None, name |-> None, pc |-> "idle", seed |-> None,
         address |-> None]

Init ==
    /\ up = FALSE /\ started = FALSE
    /\ proc = [p \in Pids |-> "unborn"]
    /\ walletRpcProcess = None /\ currentWalletName = None
    /\ xmrigProcess = None /\ xmrigConfig = None
    /\ wallet = None /\ builtin = FALSE
    /\ req = [r \in Requests |-> Idle]
    /\ overlap = {}

At(r, pc) == up /\ req[r].pc = pc
Goto(r, pc) == req' = [req EXCEPT ![r].pc = pc]
InFlight(ops) == {r \in Requests : req[r].op \in ops
                                    /\ req[r].pc \notin {"idle", "done"}}

\* A request arrives and its handler runs up to the first await.
Begin(r, op, n, pc) ==
    LET ops == IF op \in WalletOps THEN WalletOps ELSE MiningOps
        busy == InFlight(ops)
    IN  /\ At(r, "idle")
        /\ req' = [req EXCEPT ![r].op = op, ![r].name = n, ![r].pc = pc]
        /\ overlap' = IF busy = {} THEN overlap ELSE overlap \cup busy \cup {r}

----------------------------------------------------------------------------
\* The wallet RPC process

Spawned(p) == proc[p] = "unborn" /\ proc' = [proc EXCEPT ![p] = "alive"]

\* startWalletRpc: nothing if there is a process already or no binary.  What
\* its promise waits for (a line of output, or three seconds) changes nothing
\* and ensures nothing: the call that follows it may still find no listener.
startWalletRpc ==
    \/ /\ walletRpcProcess = None
       /\ \E w \in WalletPids : Spawned(w) /\ walletRpcProcess' = w
    \/ UNCHANGED <<proc, walletRpcProcess>>

Listen ==
    /\ ~started
    /\ started' = TRUE /\ up' = TRUE
    /\ startWalletRpc
    /\ UNCHANGED <<currentWalletName, xmrigProcess, xmrigConfig, wallet,
                   builtin, req, overlap>>

\* The wallet RPC's close event.
WalletRpcClosed(w) ==
    /\ up /\ proc[w] = "exited"
    /\ proc' = [proc EXCEPT ![w] = "reaped"]
    /\ walletRpcProcess' = None
    /\ UNCHANGED <<up, started, currentWalletName, xmrigProcess, xmrigConfig,
                   wallet, builtin, req, overlap>>

Running(p) == proc[p] \in {"alive", "signalled"}
Serving == \E w \in WalletPids : Running(w)

----------------------------------------------------------------------------
\* The wallet endpoints

\* create, open and restore
WalletBegin(r, op, n) ==
    /\ Begin(r, op, n, "sent")
    /\ startWalletRpc
    /\ UNCHANGED <<up, started, currentWalletName, xmrigProcess, xmrigConfig,
                   wallet, builtin>>

CloseBegin(r) ==
    /\ Begin(r, "close", None, "sent")
    /\ UNCHANGED <<up, started, proc, globals, wallet, builtin>>

\* The wallet RPC handles create_wallet, open_wallet,
\* restore_deterministic_wallet or close_wallet.  A wallet is replaced only
\* when the new one could be opened.
RpcHandles(r) ==
    /\ At(r, "sent") /\ req[r].op \in WalletOps /\ Serving
    /\ \/ Goto(r, "error") /\ UNCHANGED wallet
       \/ Goto(r, "ok") /\ wallet' = req[r].name
    /\ UNCHANGED <<up, started, proc, globals, builtin, overlap>>

AfterAnswer(op) == CASE op = "create" -> "seed"
                     [] op = "open" -> "address"
                     [] OTHER -> "done"

\* Its answer: the name is set, and create and open ask for more.
RpcAnswered(r) ==
    /\ At(r, "ok") \/ At(r, "error")
    /\ currentWalletName' = IF req[r].pc = "ok" \/ req[r].op = "close"
                            THEN req[r].name ELSE currentWalletName
    /\ Goto(r, IF req[r].pc = "ok" THEN AfterAnswer(req[r].op) ELSE "done")
    /\ UNCHANGED <<up, started, proc, walletRpcProcess, xmrigProcess,
                   xmrigConfig, wallet, builtin, overlap>>

\* query_key, answered from the wallet that is open by then
QueryKey(r) ==
    /\ At(r, "seed") /\ Serving
    /\ req' = [req EXCEPT ![r].seed = wallet, ![r].pc = "address"]
    /\ UNCHANGED <<up, started, proc, globals, wallet, builtin, overlap>>

GetAddress(r) ==
    /\ At(r, "address") /\ Serving
    /\ req' = [req EXCEPT ![r].address = wallet, ![r].pc = "done"]
    /\ UNCHANGED <<up, started, proc, globals, wallet, builtin, overlap>>

\* A call fails: the process does not listen yet, or has ended.
RpcFails(r) ==
    /\ req[r].op \in WalletOps
    /\ \/ At(r, "sent")
       \/ ~Serving /\ \E pc \in {"ok", "error", "seed", "address"} : At(r, pc)
    /\ Goto(r, "done")
    /\ UNCHANGED <<up, started, proc, globals, wallet, builtin, overlap>>

----------------------------------------------------------------------------
\* The mining endpoints

\* xmrigProcess.kill(): a SIGTERM, which a process that has ended ignores
Killed(p) == [proc EXCEPT ![p] = IF @ = "alive" THEN "signalled" ELSE @]

KillMiner ==
    IF xmrigProcess = None
    THEN UNCHANGED <<proc, xmrigProcess>>
    ELSE proc' = Killed(xmrigProcess) /\ xmrigProcess' = None

MineBegin(r, op) ==
    /\ Begin(r, op, None, "stopping")
    /\ KillMiner
    /\ xmrigConfig' = IF op = "stop" /\ xmrigProcess # None THEN None
                      ELSE xmrigConfig
    /\ UNCHANGED <<up, started, walletRpcProcess, currentWalletName, wallet,
                   builtin>>

\* The daemon handles stop_mining, or the call fails.
StopMining(r) ==
    /\ At(r, "stopping")
    /\ \/ builtin' = FALSE
       \/ UNCHANGED builtin
    /\ Goto(r, CASE req[r].op = "stop" -> "done"
                 [] req[r].op = "mine" -> "start"
                 [] OTHER -> "fallback")
    /\ UNCHANGED <<up, started, proc, globals, wallet, overlap>>

\* The answer to stop_mining: XMRig is spawned, if it is there.
StartMiner(r) ==
    /\ At(r, "start")
    /\ \/ /\ \E m \in MinerPids : Spawned(m) /\ xmrigProcess' = m
          /\ xmrigConfig' = r
          /\ Goto(r, "done")
       \/ Goto(r, "fallback") /\ UNCHANGED <<proc, xmrigProcess, xmrigConfig>>
    /\ UNCHANGED <<up, started, walletRpcProcess, currentWalletName, wallet,
                   builtin, overlap>>

\* The daemon handles start_mining, or the call fails.
StartBuiltin(r) ==
    /\ At(r, "fallback")
    /\ \/ builtin' = TRUE
       \/ UNCHANGED builtin
    /\ Goto(r, "done")
    /\ UNCHANGED <<up, started, proc, globals, wallet, overlap>>

\* The exit event of an XMRig process, whichever one it was.
MinerExited(m) ==
    /\ up /\ proc[m] = "exited"
    /\ proc' = [proc EXCEPT ![m] = "reaped"]
    /\ xmrigProcess' = None /\ xmrigConfig' = None
    /\ UNCHANGED <<up, started, walletRpcProcess, currentWalletName, wallet,
                   builtin, req, overlap>>

----------------------------------------------------------------------------
\* A process ends, by itself or after a signal.
Exit(p) ==
    /\ Running(p)
    /\ proc' = [proc EXCEPT ![p] = "exited"]
    /\ wallet' = IF p \in WalletPids THEN None ELSE wallet
    /\ UNCHANGED <<up, started, globals, builtin, req, overlap>>

\* The server's SIGINT handler
SigInt ==
    /\ up /\ up' = FALSE
    /\ proc' = IF walletRpcProcess = None THEN proc ELSE Killed(walletRpcProcess)
    /\ UNCHANGED <<started, globals, wallet, builtin, req, overlap>>

Next ==
    \/ Listen \/ SigInt
    \/ \E r \in Requests :
        \/ \E op \in WalletOps \ {"close"}, n \in Names : WalletBegin(r, op, n)
        \/ CloseBegin(r) \/ RpcHandles(r) \/ RpcAnswered(r) \/ RpcFails(r)
        \/ QueryKey(r) \/ GetAddress(r)
        \/ \E op \in MiningOps : MineBegin(r, op)
        \/ StopMining(r) \/ StartMiner(r) \/ StartBuiltin(r)
    \/ \E w \in WalletPids : WalletRpcClosed(w)
    \/ \E m \in MinerPids : MinerExited(m)
    \/ \E p \in Pids : Exit(p)

Spec == Init /\ [][Next]_vars

----------------------------------------------------------------------------
TypeOK ==
    /\ up \in BOOLEAN /\ started \in BOOLEAN /\ builtin \in BOOLEAN
    /\ proc \in [Pids -> ProcStates]
    /\ walletRpcProcess \in WalletPids \cup {None}
    /\ xmrigProcess \in MinerPids \cup {None}
    /\ xmrigConfig \in Requests \cup {None}
    /\ currentWalletName \in Names \cup {None} /\ wallet \in Names \cup {None}
    /\ req \in [Requests -> Request] /\ overlap \subseteq Requests

\* However requests interleave and however often the wallet RPC ends and is
\* started again, a running one is the process that walletRpcProcess names
\* (there are never two of them on the one port), and the server does not
\* end without having signalled it.
WalletRpcTracked ==
    \A w \in WalletPids : Running(w) =>
        IF up THEN walletRpcProcess = w ELSE proc[w] = "signalled"

\* Between wallet requests that did not overlap, the name the status endpoint
\* shows is never that of a wallet other than the one open in the wallet RPC.
\* (It may show none: the close endpoint forgets the name even when the wallet
\* RPC could not store the wallet and kept it open.)
WalletNameRight ==
    overlap \cap {r \in Requests : req[r].op \in WalletOps} = {}
    /\ InFlight(WalletOps) = {} /\ wallet # None
        => currentWalletName \in {wallet, None}

\* The seed and the address in the answer to a create or open request are
\* those of the wallet it names, unless another wallet request overlapped it.
AnswerIsOwn ==
    \A r \in Requests \ overlap :
        {req[r].seed, req[r].address} \subseteq {req[r].name, None}

\* "Stop any existing mining first": for a user who waits for each answer, at
\* most one XMRig process runs that has not been told to stop.
OneMiner ==
    overlap = {} => \A m, n \in MinerPids :
        proc[m] = "alive" /\ proc[n] = "alive" => m = n
============================================================================
