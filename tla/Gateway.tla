------------------------------- MODULE Gateway -------------------------------
(***************************************************************************)
(* The process: main.go, internal/rpcgateway/rpcgateway.go, the metrics    *)
(* server and the HTTP client factory.  main loads the configuration,      *)
(* builds a Proxy and a HealthCheckManager per entry, shuffles the         *)
(* providers if asked to, probes the ports, starts the managers and the    *)
(* goroutines of the two servers, and stops them after a signal.           *)
(*                                                                         *)
(* main is one goroutine; it interleaves with the two server goroutines,   *)
(* with the signal, and with other programs that bind ports.               *)
(***************************************************************************)
EXTENDS Integers, Sequences

CONSTANTS
  Paths,     \* the URL paths of the configured proxies
  Ports,
  NoPort,    \* metrics.port 0: the metrics server is disabled
  Configs    \* the configuration files, with the command line flag

(***************************************************************************)
(* An entry of proxies.  Timeout 0 stands for a string that is no duration *)
(* and Targets is how many targets there are.                              *)
(***************************************************************************)
EntryType == [Path : Paths, Timeout : Nat, Targets : Nat]

ConfigType ==
  [Port : Ports, MetricsPort : Ports \cup {NoPort}, RandomizeProviders : BOOLEAN,
   Flag : BOOLEAN, Proxies : Seq(EntryType)]

ASSUME PortAssumption == NoPort \notin Ports

ASSUME ConfigAssumption == Configs \subseteq ConfigType

VARIABLES
  config,    \* the configuration the process was started with
  pc,        \* where main is
  loaded,    \* how many entries of Proxies have been processed
  proxies,   \* the entry whose proxy is registered for each path, 0 for none
  hcms,      \* the entry whose manager is recorded for each path
  clients,   \* the timeout of the HTTP client made for each path, 0 for none
  client,    \* the timeout of the client the proxy of each entry got
  order,     \* p.targets of the proxy of each entry, as positions in the file
  shuffle,   \* the paths RandomizeProviders has still to visit, and its loop
  started,   \* the entries whose manager was started
  stopped,   \* the entries on whose manager Stop was called
  ended,     \* the entries whose checkers' run loops have ended
  server,    \* the two http.Servers and their goroutines
  closing,   \* the servers on which Close was called
  holder,    \* who listens on each port
  blocker,   \* history: who held the port when a server could not bind it
  ctx        \* the context of signal.NotifyContext

built    == <<loaded, proxies, hcms, clients, client>>
managers == <<started, stopped, ended>>
net      == <<server, closing, holder, blocker>>
vars == <<config, pc, built, order, shuffle, managers, net, ctx>>

Servers == {"rpc", "metrics"}

Entries == 1..Len(config.Proxies)

MetricsEnabled == config.MetricsPort # NoPort

PortOf(x) == IF x = "rpc" THEN config.Port ELSE config.MetricsPort

NoShuffle == [todo |-> {}, entry |-> 0, i |-> 0, low |-> 0]

Phases ==
  {"load", "randomize", "flag", "probe", "probeMetrics", "startManagers", "startServers",
   "wait", "closeServer", "closeMetrics", "stopManagers", "exited"}

TypeOK ==
  /\ config \in Configs
  /\ pc \in Phases
  /\ loaded \in 0..Len(config.Proxies)
  /\ proxies \in [Paths -> 0..Len(config.Proxies)]
  /\ hcms \in [Paths -> 0..Len(config.Proxies)]
  /\ clients \in [Paths -> Nat]
  /\ client \in [Entries -> Nat]
  /\ DOMAIN order = Entries
  /\ \A e \in Entries : order[e] \in [1..config.Proxies[e].Targets -> Nat]
  /\ shuffle \in [todo : SUBSET Paths, entry : Nat, i : Int, low : 0..3]
  /\ shuffle.i > 0 => /\ shuffle.entry \in Entries
                      /\ shuffle.i < config.Proxies[shuffle.entry].Targets
  /\ started \subseteq Entries
  /\ stopped \subseteq Entries
  /\ ended \subseteq started
  /\ server \in [Servers -> {"off", "spawned", "listening", "failed", "closed"}]
  /\ closing \subseteq Servers
  /\ holder \in [Ports -> Servers \cup {"nobody", "other", "probe"}]
  /\ blocker \in [Servers -> Servers \cup {"nobody", "other", "probe"}]
  /\ ctx \in {"live", "done"}

Init ==
  /\ config \in Configs
  /\ pc = "load"
  /\ loaded = 0
  /\ proxies = [p \in Paths |-> 0]
  /\ hcms = [p \in Paths |-> 0]
  /\ clients = [p \in Paths |-> 0]
  /\ client = [e \in Entries |-> 0]
  /\ order = [e \in Entries |-> [k \in 1..config.Proxies[e].Targets |-> k]]
  /\ shuffle = NoShuffle
  /\ started = {}
  /\ stopped = {}
  /\ ended = {}
  /\ server = [x \in Servers |-> "off"]
  /\ closing = {}
  /\ holder \in [Ports -> {"nobody", "other"}]
  /\ blocker = [x \in Servers |-> "nobody"]
  /\ ctx = "live"

Goto(phase) == pc' = phase

\* The process ends, and with it its goroutines and its listeners.
Exit ==
  /\ Goto("exited")
  /\ server' = [x \in Servers |-> "closed"]
  /\ holder' = [p \in Ports |-> IF holder[p] = "other" THEN "other" ELSE "nobody"]
  /\ UNCHANGED <<config, built, order, shuffle, managers, closing, blocker>>

-----------------------------------------------------------------------------
(* NewRPCGateway *)

Entry == config.Proxies[loaded + 1]

\* Fault: one client for all paths.
CreateOptimizedHTTPClientShared(path, timeout) ==
  IF \A p \in Paths : clients[p] = 0
  THEN [p \in Paths |-> timeout]
  ELSE clients

\* One client per path; the timeout of the first call counts.
CreateOptimizedHTTPClient(path, timeout) ==
  IF clients[path] = 0 THEN [clients EXCEPT ![path] = timeout] ELSE clients

\* NewProxy: its checkers get the client of the path, and so does the proxy.
NewProxy ==
  /\ clients' = CreateOptimizedHTTPClient(Entry.Path, Entry.Timeout)
  /\ client' = [client EXCEPT ![loaded + 1] = clients'[Entry.Path]]

\* Fault: the first manager of a path is kept.
RegisterFirst ==
  /\ proxies' = [proxies EXCEPT ![Entry.Path] = loaded + 1]
  /\ hcms' = [hcms EXCEPT ![Entry.Path] = IF @ = 0 THEN loaded + 1 ELSE @]

\* A later entry with the same path replaces both.
Register ==
  /\ proxies' = [proxies EXCEPT ![Entry.Path] = loaded + 1]
  /\ hcms' = [hcms EXCEPT ![Entry.Path] = loaded + 1]

Load ==
  /\ pc = "load"
  /\ loaded < Len(config.Proxies)
  /\ Entry.Timeout # 0
  /\ NewProxy
  /\ Register
  /\ loaded' = loaded + 1
  /\ UNCHANGED <<config, pc, order, shuffle, managers, net, ctx>>

\* An invalid timeout: main writes the error and exits.
LoadFails ==
  /\ pc = "load"
  /\ loaded < Len(config.Proxies)
  /\ Entry.Timeout = 0
  /\ Exit
  /\ UNCHANGED ctx

-----------------------------------------------------------------------------
(***************************************************************************)
(* RandomizeProviders, for each registered proxy in any order.  Of the     *)
(* seed, a uint64, the two low bits are kept: the multiplier is 1 modulo 4 *)
(* and overflow does not touch them.  seed % n is then any value that      *)
(* agrees with them modulo the powers of two that divide n.                *)
(***************************************************************************)
Registered == {p \in Paths : proxies[p] # 0}

\* Whether to shuffle at all: the configuration, then the flag.
Shuffles(asked) ==
  [todo |-> IF asked THEN Registered ELSE {}, entry |-> 0, i |-> 0, low |-> 0]

LoadDone ==
  /\ pc = "load"
  /\ loaded = Len(config.Proxies)
  /\ Goto("randomize")
  /\ shuffle' = Shuffles(config.RandomizeProviders)
  /\ UNCHANGED <<config, built, order, managers, net, ctx>>

\* Fault: the loop starts at n.
RandomizeProvidersFromEnd(p) ==
  /\ pc \in {"randomize", "flag"}
  /\ shuffle.i <= 0
  /\ p \in shuffle.todo
  /\ \E seed \in 0..3 :
       shuffle' = [todo |-> shuffle.todo \ {p}, entry |-> proxies[p],
                   i |-> config.Proxies[proxies[p]].Targets, low |-> seed]
  /\ UNCHANGED <<config, pc, built, order, managers, net, ctx>>

RandomizeProviders(p) ==
  /\ pc \in {"randomize", "flag"}
  /\ shuffle.i <= 0
  /\ p \in shuffle.todo
  /\ \E seed \in 0..3 :
       shuffle' = [todo |-> shuffle.todo \ {p}, entry |-> proxies[p],
                   i |-> config.Proxies[proxies[p]].Targets - 1, low |-> seed]
  /\ UNCHANGED <<config, pc, built, order, managers, net, ctx>>

NextSeed == (shuffle.low + 1) % 4

\* The power of two, up to 4, that divides n.
TwoPart(n) == IF n % 4 = 0 THEN 4 ELSE IF n % 2 = 0 THEN 2 ELSE 1

\* Fault: the first assignment overwrites what the second one needs.
SwappedInTurn(f, i, j) == [f EXCEPT ![i] = f[j]]

Swapped(f, i, j) == [f EXCEPT ![i] = f[j], ![j] = f[i]]

\* One iteration: j := seed % (i + 1), swap targets i and j (counted from 0).
Shuffle ==
  /\ pc \in {"randomize", "flag"}
  /\ shuffle.i > 0
  /\ \E j \in 0..shuffle.i :
       /\ (j - NextSeed) % TwoPart(shuffle.i + 1) = 0
       /\ order' = [order EXCEPT ![shuffle.entry] = Swapped(@, shuffle.i + 1, j + 1)]
  /\ shuffle' = [todo |-> shuffle.todo, entry |-> shuffle.entry, i |-> shuffle.i - 1,
                 low |-> NextSeed]
  /\ UNCHANGED <<config, pc, built, managers, net, ctx>>

ShuffleDone ==
  /\ shuffle.i <= 0 /\ shuffle.todo = {}
  /\ \/ pc = "randomize" /\ Goto("flag") /\ shuffle' = Shuffles(config.Flag)
     \/ pc = "flag" /\ Goto("probe") /\ shuffle' = NoShuffle
  /\ UNCHANGED <<config, built, order, managers, net, ctx>>

-----------------------------------------------------------------------------
(* Start *)

\* Fault: the listener of the probe is not closed.
ProbedAndKept(port) == [holder EXCEPT ![port] = "probe"]

\* checkPortAvailability closes its listener again.
Probed(port) == holder

\* A port is probed, for the server x.
CheckPort(x, following) ==
  /\ holder[PortOf(x)] = "nobody"
  /\ holder' = Probed(PortOf(x))
  /\ Goto(following)
  /\ UNCHANGED <<config, built, order, shuffle, managers, server, closing, blocker, ctx>>

CheckPortFails(x) ==
  /\ holder[PortOf(x)] # "nobody"
  /\ Exit
  /\ UNCHANGED ctx

CheckPorts ==
  \/ /\ pc = "probe"
     /\ \/ CheckPort("rpc", IF MetricsEnabled THEN "probeMetrics" ELSE "startManagers")
        \/ CheckPortFails("rpc")
  \/ /\ pc = "probeMetrics"
     /\ CheckPort("metrics", "startManagers") \/ CheckPortFails("metrics")

Managed == {hcms[p] : p \in Registered}

StartManager(e) ==
  /\ pc = "startManagers"
  /\ e \in Managed \ started
  /\ started' = started \cup {e}
  /\ UNCHANGED <<config, pc, built, order, shuffle, stopped, ended, net, ctx>>

\* Fault: the providers are shuffled once more when their checkers run.
ManagersStartedShuffles ==
  /\ pc = "startManagers"
  /\ Managed \subseteq started
  /\ Goto("flag")
  /\ shuffle' = Shuffles(config.Flag)
  /\ UNCHANGED <<config, built, order, managers, net, ctx>>

ManagersStarted ==
  /\ pc = "startManagers"
  /\ Managed \subseteq started
  /\ Goto("startServers")
  /\ UNCHANGED <<config, built, order, shuffle, managers, net, ctx>>

\* The go statements for the servers; Start returns nil.
StartServers ==
  /\ pc = "startServers"
  /\ Goto("wait")
  /\ server' = [x \in Servers |-> IF x = "rpc" \/ MetricsEnabled THEN "spawned" ELSE "off"]
  /\ UNCHANGED <<config, built, order, shuffle, managers, closing, holder, blocker, ctx>>

(***************************************************************************)
(* ListenAndServe in its goroutine: returns at once after Close, and an    *)
(* error to bind the port is only logged.                                  *)
(***************************************************************************)
ListenAndServe(x) ==
  /\ server[x] = "spawned"
  /\ LET free == holder[PortOf(x)] = "nobody"
     IN  /\ server' = [server EXCEPT ![x] = IF x \in closing THEN "closed"
                                            ELSE IF free THEN "listening" ELSE "failed"]
         /\ holder' = IF x \notin closing /\ free THEN [holder EXCEPT ![PortOf(x)] = x]
                                                  ELSE holder
         /\ blocker' = IF x \notin closing /\ ~free
                       THEN [blocker EXCEPT ![x] = holder[PortOf(x)]]
                       ELSE blocker
  /\ UNCHANGED <<config, pc, built, order, shuffle, managers, closing, ctx>>

-----------------------------------------------------------------------------
(* The signal, and Stop *)

\* Before NotifyContext the signal ends the process.  After it, it only cancels
\* the context, on which main and the run loops of all checkers wait.
Signal ==
  /\ ctx = "live"
  /\ ctx' = "done"
  /\ pc # "exited"
  /\ \/ pc \in {"load", "randomize", "flag"} /\ Exit
     \/ /\ pc \notin {"load", "randomize", "flag"}
        /\ UNCHANGED <<config, pc, built, order, shuffle, managers, net>>

\* The loops of the checkers of e leave their select, in their own time.
LoopsEnd(e) ==
  /\ pc # "exited"
  /\ ctx = "done"
  /\ e \in started \ ended
  /\ ended' = ended \cup {e}
  /\ UNCHANGED <<config, pc, built, order, shuffle, started, stopped, net, ctx>>

AwaitSignal ==
  /\ pc = "wait"
  /\ ctx = "done"
  /\ Goto("closeServer")
  /\ UNCHANGED <<config, built, order, shuffle, managers, net, ctx>>

\* Fault: Close only closes the listener that is there.
CloseListener(x) ==
  /\ server' = [server EXCEPT ![x] = IF @ = "listening" THEN "closed" ELSE @]
  /\ holder' = [p \in Ports |-> IF holder[p] = x THEN "nobody" ELSE holder[p]]
  /\ UNCHANGED <<closing, blocker>>

\* http.Server.Close: the listener, and any later ListenAndServe.
Close(x) ==
  /\ closing' = closing \cup {x}
  /\ server' = [server EXCEPT ![x] = IF @ = "listening" THEN "closed" ELSE @]
  /\ holder' = [p \in Ports |-> IF holder[p] = x THEN "nobody" ELSE holder[p]]
  /\ UNCHANGED blocker

CloseServer ==
  /\ pc = "closeServer"
  /\ Close("rpc")
  /\ Goto("closeMetrics")
  /\ UNCHANGED <<config, built, order, shuffle, managers, ctx>>

CloseMetrics ==
  /\ pc = "closeMetrics"
  /\ IF MetricsEnabled THEN Close("metrics") ELSE UNCHANGED net
  /\ Goto("stopManagers")
  /\ UNCHANGED <<config, built, order, shuffle, managers, ctx>>

\* Stop of a manager only leaves each checker a token; see HealthChecker.
StopManager(e) ==
  /\ pc = "stopManagers"
  /\ e \in Managed \ stopped
  /\ stopped' = stopped \cup {e}
  /\ UNCHANGED <<config, pc, built, order, shuffle, started, ended, net, ctx>>

\* Fault: main waits for a manager that was replaced.
ManagersStoppedWaits ==
  /\ pc = "stopManagers"
  /\ Entries \subseteq stopped
  /\ Exit
  /\ UNCHANGED ctx

ManagersStopped ==
  /\ pc = "stopManagers"
  /\ Managed \subseteq stopped
  /\ Exit
  /\ UNCHANGED ctx

\* Other programs come and go on the ports.
OtherProgram(p) ==
  /\ pc # "exited"
  /\ \/ holder[p] = "nobody" /\ holder' = [holder EXCEPT ![p] = "other"]
     \/ holder[p] = "other" /\ holder' = [holder EXCEPT ![p] = "nobody"]
  /\ UNCHANGED <<config, pc, built, order, shuffle, managers, server, closing, blocker, ctx>>

-----------------------------------------------------------------------------
Main ==
  \/ Load \/ LoadFails \/ LoadDone
  \/ \E p \in Paths : RandomizeProviders(p)
  \/ Shuffle \/ ShuffleDone
  \/ CheckPorts
  \/ \E e \in Entries : StartManager(e) \/ StopManager(e)
  \/ ManagersStarted \/ StartServers \/ AwaitSignal
  \/ CloseServer \/ CloseMetrics \/ ManagersStopped

Next ==
  \/ Main
  \/ \E x \in Servers : ListenAndServe(x)
  \/ Signal
  \/ \E e \in Entries : LoopsEnd(e)
  \/ \E p \in Ports : OtherProgram(p)

SafetySpec == Init /\ [][Next]_vars

\* main and the server goroutines run; signals and other programs need not.
Spec == SafetySpec /\ WF_vars(Main) /\ \A x \in Servers : WF_vars(ListenAndServe(x))

-----------------------------------------------------------------------------
(***************************************************************************)
(* Until a signal comes, while the gateway takes requests the proxy behind *)
(* every path has its health checkers running, also when the file names a  *)
(* path twice: the managers start before the servers and the two maps      *)
(* agree.  After the signal this ends: its context is the one the loops    *)
(* were started with, so they leave while the server still listens,        *)
(* although Stop is written to stop the managers last.                     *)
(***************************************************************************)
ServedIsMonitored ==
  server["rpc"] = "listening" /\ ctx = "live" =>
    \A p \in Registered : proxies[p] \in started \ ended

(***************************************************************************)
(* RandomizeProviders loses no provider: whatever the seeds and however    *)
(* often it runs, every target of the file is in the list of its proxy.    *)
(***************************************************************************)
OrderKeepsTargets ==
  \A e \in Entries : \A k \in DOMAIN order[e] : \E i \in DOMAIN order[e] : order[e][i] = k

(***************************************************************************)
(* RandomizeProviders writes p.targets without a lock, and the goroutines  *)
(* of requests read it without one: the list changes only while no manager *)
(* has been started and no goroutine of a server exists.                   *)
(***************************************************************************)
OrderFrozen ==
  [][order' # order => started = {} /\ \A x \in Servers : server[x] = "off"]_vars

(***************************************************************************)
(* A proxy works with its own timeout, unless an earlier entry has the     *)
(* same path, whose client it then shares: paths do not share clients.     *)
(***************************************************************************)
ClientIsOwn ==
  \A e \in 1..loaded :
    \/ client[e] = config.Proxies[e].Timeout
    \/ \E d \in 1..(e - 1) : /\ config.Proxies[d].Path = config.Proxies[e].Path
                            /\ client[e] = client[d]

(***************************************************************************)
(* Once Stop has closed a server nothing listens for it any more, also     *)
(* when the signal comes before its goroutine got to listen.               *)
(***************************************************************************)
ClosedStaysClosed ==
  /\ pc \in {"closeMetrics", "stopManagers", "exited"} => server["rpc"] # "listening"
  /\ pc \in {"stopManagers", "exited"} => server["metrics"] # "listening"

(***************************************************************************)
(* After Start has returned the gateway gets to listen, unless a signal    *)
(* comes first or another program, or its own metrics server configured    *)
(* with the same port, took the port after the probe.                      *)
(***************************************************************************)
StartedServes ==
  pc = "wait" ~> \/ server["rpc"] = "listening"
                 \/ blocker["rpc"] \in {"other", "metrics"}
                 \/ ctx = "done"

(***************************************************************************)
(* A signal ends the process, whatever it is doing.                        *)
(***************************************************************************)
SignalEnds == ctx = "done" ~> pc = "exited"
====
