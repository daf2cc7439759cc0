---- MODULE Panel ----
\* The panel in the browser: what its pages show and how they learn that it has
\* changed.  A page mounts queries of the React Query cache.  A query is read again
\* when it mounts and is stale, when its refetchInterval has passed, and when its key
\* begins with a key that is invalidated: by a mutation of a page when it is
\* answered, or by an event of the live socket (hooks/useSocket.ts).
\*
\* Queries do not influence each other, so a behaviour follows one of them: view.
EXTENDS Integers, SequencesExt

CONSTANTS MaxVersion,   \* bound on the changes of the data a view shows
          SocketIds,    \* sockets that may exist at once
          PanelFaults   \* bound on failing requests

\* A socket has a number; 0 in useSocket.ts's variable stands for none.
ASSUME PanelAssumption ==
  MaxVersion \in Nat /\ SocketIds \subseteq Nat \ {0} /\ PanelFaults \in Nat

VARIABLES view,         \* the query that is followed
          latest,       \* the data on the server, as a version number
          shown,        \* the version in the cache, -1 for none
          invalid,      \* the cached data is stale or invalidated
          mounted,      \* the page of the view is open
          fetch,        \* the request of the query: idle, asked, or what has been read
          change,       \* the mutation under way
          events,       \* events on the way: the version each announces
          connected,    \* sockets that are connected
          socket,       \* useSocket.ts: the variable of the module
          tasksPage,    \* TasksPage is open
          signedIn,     \* Layout is mounted
          broken,       \* the connection of the sockets has broken since then
          due,          \* history: the version the view has to come to show, -1 for none
          panelFaults   \* faults left

pageVars == <<view, latest, shown, invalid, mounted, fetch>>
panelVars == <<view, latest, shown, invalid, mounted, fetch, change, events,
               connected, socket, tasksPage, signedIn, broken, due, panelFaults>>

----
\* The pages.  A query: its page, key, what its data is about, and refetchInterval.
\* "id" stands for the object of a page.
Query(p, k, about, polls) == [page |-> p, key |-> k, about |-> about, polls |-> polls]
Polled(p, k, a) == Query(p, k, {a}, TRUE)
Plain(p, k, a) == Query(p, k, {a}, FALSE)
\* The lists of nodes and networks; they lose an entry when one is removed.
NodeList(p, polls) == Query(p, <<"nodes">>, {"node", "nodes"}, polls)
NetworkList(p) == Query(p, <<"networks">>, {"network", "networks"}, FALSE)

VmListQueries == {Plain("vms", <<"vms">>, "vm"), NodeList("vms", FALSE)}
VmDetailQueries ==
  {Polled("vm", <<"vms", "id">>, "vm"), Polled("vm", <<"vms", "id", "backups">>, "backup"),
   Plain("vm", <<"vms", "id", "snapshots">>, "snapshot"),
   Plain("vm", <<"vms", "id", "firewall">>, "firewall"),
   Plain("vm", <<"vms", "id", "backup-schedules">>, "plan"),
   Plain("vm", <<"vms", "id", "pci">>, "pci"), NodeList("vm", FALSE),
   Plain("vm", <<"nodes", "id", "pci-devices">>, "device"),
   Plain("vm", <<"storage", "isos">>, "iso"), NetworkList("vm")}
ContainersQueries == {Polled("containers", <<"containers">>, "container"), NodeList("containers", FALSE)}
ContainerQueries == {Polled("container", <<"containers", "id">>, "container")}
CreateContainerQueries == {NodeList("createContainer", FALSE)}
CreateVmQueries == {NodeList("createVm", FALSE), NetworkList("createVm"),
                    Plain("createVm", <<"storage", "templates">>, "template"),
                    Plain("createVm", <<"nodes", "id">>, "node")}
NodesQueries == {NodeList("nodes", TRUE)}
NodeQueries == {Polled("node", <<"nodes", "id">>, "node"),
                Polled("node", <<"nodes", "id", "metrics">>, "metric")}
DashboardQueries ==
  {Plain("dashboard", <<"vms">>, "vm"), NodeList("dashboard", TRUE),
   Polled("dashboard", <<"containers">>, "container"),
   Polled("dashboard", <<"tasks", "recent">>, "task"),
   Polled("dashboard", <<"nodes", "id", "metrics">>, "metric")}
\* The palette is a component of Layout, and reads while it is open.
PaletteQueries == {Plain("palette", <<"vms">>, "vm"), NodeList("palette", FALSE),
                   Plain("palette", <<"containers">>, "container")}
TaskQueries == {Polled("tasks", <<"tasks">>, "task")}
NetworkQueries == {NetworkList("networks"),
                   Plain("networks", <<"port-forwards", "id">>, "forward")}
NetworkDetailQueries == {Plain("network", <<"network", "id">>, "network"),
                         Plain("network", <<"port-forwards", "id">>, "forward")}
ClusterQueries == {NodeList("storage", FALSE), Polled("storage", <<"nodes", "id">>, "node")}
TemplateQueries == {Plain("storage", <<"storage", "templates">>, "template")}
IsoQueries == {Plain("storage", <<"storage", "isos">>, "iso")}
UserQueries == {Plain("users", <<"users">>, "user"), Query("users", <<"roles">>, {"role", "user"}, FALSE),
                Plain("users", <<"permissions">>, "permission")}
QuotaQueries == {Plain("users", <<"quota", "id">>, "quota")}
AlertQueries == {Plain("alerts", <<"alerts">>, "alert"), Plain("alerts", <<"webhooks">>, "hook"),
                 NodeList("alerts", FALSE)}
WebhookQueries == {Plain("webhooks", <<"webhooks">>, "hook"),
                   Plain("webhooks", <<"webhook-deliveries", "id">>, "delivery")}
AuditQueries == {Plain("audit", <<"audit", "filter">>, "log")}
ScheduleQueries == {Plain("schedules", <<"backup-schedules">>, "cronplan")}
ApiKeyQueries == {Plain("keys", <<"api-keys">>, "key")}
SessionQueries == {Plain("settings", <<"auth", "sessions">>, "session")}
SettingQueries == {Plain("system", <<"system-settings">>, "setting")}
LicenseQueries == {Polled("layout", <<"license">>, "license"), Plain("license", <<"license">>, "license")}

Views == UNION {VmListQueries, VmDetailQueries, CreateVmQueries, CreateContainerQueries,
                ContainersQueries, ContainerQueries, NodesQueries, NodeQueries,
                DashboardQueries, PaletteQueries, TaskQueries, NetworkQueries,
                NetworkDetailQueries, ClusterQueries, TemplateQueries, IsoQueries,
                UserQueries, QuotaQueries, AlertQueries, WebhookQueries, AuditQueries,
                ScheduleQueries, ApiKeyQueries, SessionQueries, SettingQueries, LicenseQueries}

\* A mutation: its page, what it changes on the server, the keys it invalidates, and
\* whether it does so when it fails, too (onSettled).
Settled(p, a, ks) == [page |-> p, changes |-> a, drops |-> ks, always |-> TRUE]
OnSuccess(p, a, ks) == [page |-> p, changes |-> a, drops |-> ks, always |-> FALSE]

VmListMutations == {Settled("vms", {"vm"}, {<<"vms">>})}
VmDetailMutations ==
  {Settled("vm", {"vm", "snapshot", "backup", "firewall", "plan", "pci"},
           {<<"vms">>} \cup {<<"vms", "id", k>> :
              k \in {"snapshots", "backups", "firewall", "backup-schedules", "pci"}})}
CreateVmMutations == {OnSuccess("createVm", {"vm"}, {})}
CreateContainerMutations == {OnSuccess("createContainer", {"container"}, {})}
ContainersMutations == {Settled("containers", {"container"}, {<<"containers">>})}
ContainerMutations == {Settled("container", {"container"}, {<<"containers">>})}
NodeMutations == {OnSuccess("node", {"node"}, {<<"nodes", "id">>}), OnSuccess("node", {"nodes"}, {})}
NetworkMutations == {OnSuccess("networks", {"network"}, {<<"networks">>}),
                     OnSuccess("networks", {"forward"}, {<<"port-forwards">>})}
NetworkDetailMutations == {OnSuccess("network", {"network"}, {<<"network", "id">>}),
                           OnSuccess("network", {"networks"}, {<<"networks">>}),
                           OnSuccess("network", {"forward"}, {<<"port-forwards", "id">>})}
TemplateMutations == {OnSuccess("storage", {"template"}, {<<"storage", "templates">>}),
                      Settled("storage", {"template"}, {<<"storage", "templates">>})}
IsoMutations == {OnSuccess("storage", {"iso"}, {<<"storage", "isos">>}),
                 Settled("storage", {"iso"}, {<<"storage", "isos">>})}
UserMutations == {OnSuccess("users", {"user"}, {<<"users">>}), OnSuccess("users", {"role"}, {<<"roles">>})}
QuotaMutations == {OnSuccess("users", {"quota"}, {<<"quota", "id">>})}
AlertMutations == {OnSuccess("alerts", {"alert"}, {<<"alerts">>})}
WebhookMutations == {OnSuccess("webhooks", {"hook"}, {<<"webhooks">>})}
ScheduleMutations == {OnSuccess("schedules", {"cronplan"}, {<<"backup-schedules">>})}
ApiKeyMutations == {OnSuccess("keys", {"key"}, {<<"api-keys">>}), Settled("keys", {"key"}, {<<"api-keys">>})}
SessionMutations == {Settled("settings", {"session"}, {<<"auth", "sessions">>})}
SettingMutations == {OnSuccess("system", {"setting"}, {<<"system-settings">>})}
LicenseMutations == {OnSuccess("license", {"license"}, {<<"license">>}),
                     Settled("license", {"license"}, {<<"license">>})}

Mutations == UNION {VmListMutations, VmDetailMutations, CreateVmMutations,
                    CreateContainerMutations, ContainersMutations, ContainerMutations,
                    NodeMutations, NetworkMutations, NetworkDetailMutations,
                    TemplateMutations, IsoMutations, UserMutations, QuotaMutations,
                    AlertMutations, WebhookMutations, ScheduleMutations, ApiKeyMutations,
                    SessionMutations, SettingMutations, LicenseMutations}

\* What a mutation changes and a query without refetchInterval shows, but is left to
\* the next time the query is read: <<page, what is changed, key of the query>>.
Gaps == {<<"createVm", "vm", <<"vms">>>>, <<"createContainer", "container", <<"containers">>>>,
         <<"node", "node", <<"nodes">>>>,
         <<"node", "nodes", <<"nodes">>>>, <<"networks", "network", <<"network", "id">>>>,
         <<"network", "network", <<"networks">>>>, <<"users", "user", <<"roles">>>>}

\* The events: task.update of a task that has ended and container.state for VMs and
\* containers (a VM's backups and snapshots are tasks of the VM), any task.update
\* for the tasks, node.state and vm.state of a heartbeat.
EventKeys(a) ==
  CASE a \in {"vm", "snapshot", "backup"} -> {<<"tasks">>, <<"vms">>}
    [] a = "container" -> {<<"tasks">>, <<"containers">>}
    [] a = "task" -> {<<"tasks">>}
    [] a = "node" -> {<<"nodes">>}
    [] OTHER -> {}
Pushed == {"vm", "snapshot", "backup", "container", "task", "node"}

----
NoChange == [step |-> "none"]
IdleFetch == [step |-> "idle", read |-> 0]
Versions == 0..MaxVersion

PanelTypeOK ==
  /\ view \in Views
  /\ latest \in Versions /\ shown \in Versions \cup {-1} /\ due \in Versions \cup {-1}
  /\ invalid \in BOOLEAN /\ mounted \in BOOLEAN
  /\ fetch \in [step : {"idle", "asked", "read"}, read : Versions]
  /\ change.step \in {"none", "sent", "carried out"}
  /\ events \subseteq Versions
  /\ connected \subseteq SocketIds /\ socket \in SocketIds \cup {0}
  /\ tasksPage \in BOOLEAN /\ signedIn \in BOOLEAN /\ broken \in BOOLEAN
  /\ panelFaults \in 0..PanelFaults

PanelInit ==
  /\ view \in Views
  /\ latest = 0 /\ shown = -1 /\ due = -1
  /\ invalid = TRUE /\ mounted = FALSE
  /\ fetch = IdleFetch /\ change = NoChange /\ events = {}
  /\ connected = {} /\ socket = 0
  /\ tasksPage = FALSE /\ signedIn = FALSE /\ broken = FALSE
  /\ panelFaults = PanelFaults

----
(* React Query.                                                             *)

Asked == [step |-> "asked", read |-> 0]

\* invalidateQueries: a mounted query is read again, and a read under way is
\* cancelled for it.  Another one is marked; if it is being read since before its
\* page was left, the answer passes for a new one and the change is not seen.
Invalidate(ks, owed) ==
  IF \E k \in ks : IsPrefix(k, view.key)
    THEN IF mounted THEN fetch' = Asked /\ due' = owed /\ UNCHANGED invalid
         ELSE /\ invalid' = TRUE /\ UNCHANGED fetch
              /\ due' = IF fetch.step = "idle" \/ view.polls THEN owed ELSE -1
    ELSE due' = owed /\ UNCHANGED <<invalid, fetch>>

Mount == /\ mounted' = TRUE
         /\ fetch' = IF (shown = -1 \/ invalid) /\ fetch.step = "idle" THEN Asked ELSE fetch

GoesStale ==
  /\ shown # -1 /\ ~invalid /\ invalid' = TRUE
  /\ UNCHANGED <<view, latest, shown, mounted, fetch, change, events, connected, socket,
                 tasksPage, signedIn, broken, due, panelFaults>>

Refetch ==
  /\ view.polls /\ mounted /\ fetch.step = "idle" /\ fetch' = Asked
  /\ UNCHANGED <<view, latest, shown, invalid, mounted, change, events, connected, socket,
                 tasksPage, signedIn, broken, due, panelFaults>>

ReadServer ==
  /\ fetch.step = "asked" /\ fetch' = [step |-> "read", read |-> latest]
  /\ UNCHANGED <<view, latest, shown, invalid, mounted, change, events, connected, socket,
                 tasksPage, signedIn, broken, due, panelFaults>>

AnswerArrives ==
  /\ fetch.step = "read"
  /\ shown' = fetch.read /\ invalid' = FALSE /\ fetch' = IdleFetch
  /\ UNCHANGED <<view, latest, mounted, change, events, connected, socket, tasksPage,
                 signedIn, broken, due, panelFaults>>

\* The request and its one repetition fail; a query that is not polled stays as it is.
FetchFails ==
  /\ fetch.step # "idle" /\ panelFaults > 0
  /\ panelFaults' = panelFaults - 1
  /\ fetch' = IdleFetch
  /\ due' = IF view.polls THEN due ELSE -1
  /\ UNCHANGED <<view, latest, shown, invalid, mounted, change, events, connected, socket,
                 tasksPage, signedIn, broken>>

----
(* Pages and the live socket: both Layout and TasksPage call useLiveEvents. *)

\* The effect connects a socket and keeps it in the variable of the module; the
\* cleanup disconnects what the variable holds at that time.  (A socket that nothing
\* holds any more stays connected; SocketIds bounds how many do.)
Free == SocketIds \ (connected \cup {socket})
Connect == /\ Free # {}
           /\ socket' = Min(Free) /\ connected' = connected \cup {Min(Free)}

\* (Defect for a mutant run: every socket is disconnected.)
MutantCleanup == connected' = {} /\ socket' = 0
Cleanup == /\ connected' = connected \ {socket}
           /\ socket' = 0

SignIn ==
  /\ ~signedIn /\ Connect
  /\ signedIn' = TRUE /\ broken' = FALSE
  /\ IF view.page = "layout" THEN Mount ELSE UNCHANGED <<mounted, fetch>>
  /\ UNCHANGED <<view, latest, shown, invalid, change, events, tasksPage, due, panelFaults>>

\* Layout and with it every page unmount, and events on the way are lost; the cache
\* stays.
SignOut ==
  /\ signedIn
  /\ signedIn' = FALSE /\ tasksPage' = FALSE /\ mounted' = FALSE /\ Cleanup
  /\ due' = IF view.polls THEN due ELSE -1
  /\ UNCHANGED <<view, latest, shown, invalid, fetch, change, events, broken, panelFaults>>

OpenTasks ==
  /\ signedIn /\ ~tasksPage /\ Connect
  /\ view.page \in {"tasks", "layout"} \/ ~mounted
  /\ tasksPage' = TRUE
  /\ IF view.page = "tasks" THEN Mount ELSE UNCHANGED <<mounted, fetch>>
  /\ UNCHANGED <<view, latest, shown, invalid, change, events, signedIn, broken, due, panelFaults>>

LeaveTasks ==
  /\ tasksPage /\ tasksPage' = FALSE /\ Cleanup
  /\ mounted' = (mounted /\ view.page # "tasks")
  /\ UNCHANGED <<view, latest, shown, invalid, fetch, change, events, signedIn, broken, due,
                 panelFaults>>

OpenPage ==
  /\ signedIn /\ ~tasksPage /\ ~mounted /\ view.page \notin {"tasks", "layout"}
  /\ Mount
  /\ UNCHANGED <<view, latest, shown, invalid, change, events, connected, socket, tasksPage,
                 signedIn, broken, due, panelFaults>>

LeavePage ==
  /\ mounted /\ view.page \notin {"tasks", "layout"}
  /\ mounted' = FALSE
  /\ UNCHANGED <<view, latest, shown, invalid, fetch, change, events, connected, socket,
                 tasksPage, signedIn, broken, due, panelFaults>>

\* The connection breaks and events are lost.  A socket connects again with the
\* access token it was made with, or is refused for ever if that has expired.
LineBreaks ==
  /\ connected # {} /\ panelFaults > 0
  /\ panelFaults' = panelFaults - 1
  /\ \E up \in SUBSET connected : connected' = up
  /\ broken' = TRUE /\ events' = {}
  /\ due' = IF view.polls THEN due ELSE -1
  /\ UNCHANGED <<view, latest, shown, invalid, mounted, fetch, change, socket, tasksPage, signedIn>>

----
(* What changes.                                                            *)

\* A heartbeat, a task or another user changes the data.
ServerChanges ==
  /\ latest < MaxVersion /\ latest' = latest + 1
  /\ LET pushed == view.about \cap Pushed # {} IN
     /\ events' = IF pushed /\ connected # {} THEN events \cup {latest'} ELSE events
     /\ due' = IF view.polls \/ (pushed /\ signedIn /\ ~broken) THEN latest' ELSE due
  /\ UNCHANGED <<view, shown, invalid, mounted, fetch, change, connected, socket, tasksPage, signedIn,
                 broken, panelFaults>>

EventArrives(v) ==
  /\ v \in events /\ events' = events \ {v}
  /\ IF connected # {} THEN Invalidate(UNION {EventKeys(a) : a \in view.about}, due)
                       ELSE UNCHANGED <<invalid, fetch, due>>
  /\ UNCHANGED <<view, latest, shown, mounted, change, connected, socket, tasksPage, signedIn,
                 broken, panelFaults>>

Mutate(m) ==
  /\ signedIn /\ ~tasksPage /\ change = NoChange
  /\ m.changes \cap view.about # {}
  /\ view.page # "layout" => (mounted <=> m.page = view.page)
  /\ change' = [step |-> "sent", m |-> m, v |-> 0]
  /\ UNCHANGED <<view, latest, shown, invalid, mounted, fetch, events, connected, socket, tasksPage,
                 signedIn, broken, due, panelFaults>>

CarryOut ==
  /\ change.step = "sent" /\ latest < MaxVersion
  /\ latest' = latest + 1
  /\ change' = [change EXCEPT !.step = "carried out", !.v = latest']
  /\ due' = IF view.polls THEN latest' ELSE due
  /\ UNCHANGED <<view, shown, invalid, mounted, fetch, events, connected, socket, tasksPage, signedIn,
                 broken, panelFaults>>

Leaves(m) == \A a \in m.changes \cap view.about : <<m.page, a, view.key>> \in Gaps

MutationAnswered ==
  /\ change.step = "carried out" /\ change' = NoChange
  /\ Invalidate(change.m.drops, IF Leaves(change.m) THEN due ELSE Max({due, change.v}))
  /\ UNCHANGED <<view, latest, shown, mounted, events, connected, socket, tasksPage, signedIn, broken,
                 panelFaults>>

\* The request fails, before or after it has been carried out.
MutationFails ==
  /\ change # NoChange /\ panelFaults > 0
  /\ panelFaults' = panelFaults - 1 /\ change' = NoChange
  /\ IF change.m.always
       THEN Invalidate(change.m.drops, IF Leaves(change.m) THEN due ELSE Max({due, change.v}))
       ELSE UNCHANGED <<invalid, fetch, due>>
  /\ UNCHANGED <<view, latest, shown, mounted, events, connected, socket, tasksPage, signedIn, broken>>

----
PanelNext ==
  \/ GoesStale \/ Refetch \/ ReadServer \/ AnswerArrives \/ FetchFails
  \/ SignIn \/ SignOut \/ OpenTasks \/ LeaveTasks \/ OpenPage \/ LeavePage
  \/ LineBreaks
  \/ ServerChanges
  \/ \E v \in Versions : EventArrives(v)
  \/ \E m \in Mutations : Mutate(m)
  \/ CarryOut \/ MutationAnswered \/ MutationFails

\* The browser and the server answer, the interval of a query passes, an event that
\* has been sent arrives.
Answers == ReadServer \/ AnswerArrives
Arrives == \E v \in Versions : EventArrives(v)

PanelSpec == /\ PanelInit /\ [][PanelNext]_panelVars
             /\ WF_panelVars(Answers) /\ WF_panelVars(Refetch) /\ WF_panelVars(Arrives)

----
\* A page that stays open comes to show what the server has: what a mutation has
\* changed once it is answered, what an event announces as long as the connection
\* holds, and everything if it is polled; whatever pages were opened and left
\* meanwhile, whichever reads were under way and in whatever order they end.
PanelCatchesUp == []<>(~mounted \/ shown >= due)
====
