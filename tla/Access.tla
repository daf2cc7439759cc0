------------------------------- MODULE Access -------------------------------
(***************************************************************************)
(* Who may ask the backend for what, and what the panel offers to whom.    *)
(*                                                                         *)
(* The backend decides request by request: PermissionsGuard compares the   *)
(* permission that the route names with those that the role of the user    *)
(* has in the database, and the service looks at the state of the object.  *)
(* The panel decides page by page, with the permissions it was told when   *)
(* the user signed in or the app was loaded, and with the state it read    *)
(* last.  The two are written down in forty files; this module puts the    *)
(* tables of both beside each other.                                       *)
(*                                                                         *)
(* A request stands for a method of a controller.  What a page asks on its *)
(* own account (its queries) and what it lets the user ask (its buttons)   *)
(* are treated alike; what is asked from a dialog that a button opens, and *)
(* that stays open whatever becomes of the object, is kept apart.          *)
(* Conditions on other things than the object of the page (a backup that   *)
(* is complete, a pool that is not the default) are left out, as no route  *)
(* looks at them; so are the checks of a form, and what a route refuses    *)
(* because of other rows.                                                  *)
(***************************************************************************)

CONSTANT Grants  \* sets of permissions that the role of the user may come to have

VARIABLES granted,  \* role_permissions of the user's role
          known,    \* user.permissions in AuthContext
          page,     \* the page that is open
          settled,  \* the menu or a link led there, and the role is as it was then
          actual,   \* the state of the page's object in the database
          displayed, \* the state that the page shows
          dialogs   \* what the dialogs that are open offer

accessVars == <<granted, known, page, settled, actual, displayed, dialogs>>

-----------------------------------------------------------------------------
(* The permissions and the routes.                                         *)

Permissions ==
  {"vm.read", "vm.create", "vm.delete", "vm.power", "vm.snapshot", "vm.console", "vm.firewall",
   "node.read", "node.manage", "network.read", "network.manage", "storage.read",
   "storage.manage", "backup.read", "backup.manage", "user.manage", "audit.read",
   "license.read", "license.manage"}

Operator ==
  {"vm.read", "vm.create", "vm.delete", "vm.power", "vm.snapshot", "vm.console", "vm.firewall",
   "node.read", "network.read", "storage.read", "backup.read", "backup.manage",
   "license.read"}

Customer == {"vm.read", "vm.power", "vm.snapshot", "vm.console", "backup.read"}

\* What the seed gives its roles.
SeededGrants == {Permissions, Operator, Customer}

\* role_permissions refers to rows of permissions, which only the seed inserts.
ASSUME AccessAssumption == Grants \subseteq SUBSET Permissions

\* No permission: @Public, or nothing but a session.
Anyone == "anyone"

Needs(permission, requests) ==
  {[permission |-> permission, request |-> r] : r \in requests}

VmRoutes ==
  Needs("vm.read", {"vms.list", "vms.get", "vms.listSnapshots"})
  \cup Needs("vm.create", {"vms.create", "vms.clone", "vms.resize", "vms.resizeDisk"})
  \cup Needs("vm.delete", {"vms.remove"})
  \cup Needs("vm.manage", {"vms.migrate", "vms.mountIso", "vms.unmountIso", "vms.addNic",
                         "vms.removeNic", "vms.updateMeta"})
  \cup Needs("vm.power", {"vms.start", "vms.stop", "vms.restart"})
  \cup Needs("vm.snapshot", {"vms.createSnapshot", "vms.revert", "vms.deleteSnapshot"})

VmDeviceRoutes ==
  Needs("vm.console", {"vms.console"})
  \cup Needs("vm.firewall", {"vms.listFirewall", "vms.addRule", "vms.deleteRule"})
  \cup Needs("vm.manage", {"vms.listPci", "vms.addPci", "vms.removePci"})

ContainerRoutes ==
  Needs("vm.read", {"containers.list", "containers.get"})
  \cup Needs("vm.create", {"containers.create"})
  \cup Needs("vm.manage", {"containers.updateMeta", "containers.start", "containers.stop",
                         "containers.restart"})
  \cup Needs("vm.delete", {"containers.remove"})

BackupRoutes ==
  Needs("backup.read", {"backups.list", "backups.listSchedules"})
  \cup Needs("backup.manage", {"backups.create", "backups.restore", "backups.remove",
                             "backups.createSchedule", "backups.updateSchedule",
                             "backups.deleteSchedule"})

ScheduleRoutes ==
  Needs("vm.manage", {"schedules.list", "schedules.create", "schedules.update",
                      "schedules.remove", "schedules.toggle", "schedules.runNow"})

NodeRoutes ==
  Needs("node.read", {"nodes.list", "nodes.get", "nodes.metrics", "nodes.pciDevices"})
  \cup Needs("node.manage", {"nodes.createJoinToken", "nodes.patch", "nodes.drain",
                           "nodes.remove", "nodes.createPool", "nodes.defaultPool",
                           "nodes.removePool"})
  \cup Needs(Anyone, {"nodes.join", "nodes.heartbeat"})

NetworkRoutes ==
  Needs("network.read", {"networks.list", "networks.getOne", "networks.listPools",
                         "networks.ipAddresses", "networks.listPortForwards"})
  \cup Needs("network.manage", {"networks.create", "networks.createPool",
                              "networks.deleteNetwork", "networks.deletePool",
                              "networks.createPortForward", "networks.deletePortForward"})

StorageRoutes ==
  Needs(Anyone, {"storage.templates", "storage.isos"})
  \cup Needs("storage.manage", {"storage.createTemplate", "storage.deleteTemplate",
                              "storage.createIso", "storage.deleteIso"})

TaskRoutes == Needs("node.read", {"tasks.list", "tasks.get"})

AlertRoutes ==
  Needs("node.read", {"alerts.list", "alerts.create", "alerts.update", "alerts.remove"})

WebhookRoutes ==
  Needs("node.read", {"webhooks.list", "webhooks.create", "webhooks.update",
                      "webhooks.remove", "webhooks.deliveries"})

UserRoutes == Needs("user.manage", {"users.list", "users.create", "users.update", "users.remove"})

RoleRoutes ==
  Needs("user.manage", {"roles.list", "roles.permissions", "roles.create", "roles.update",
                        "roles.delete", "roles.getQuota", "roles.putQuota",
                        "roles.deleteQuota"})

SettingRoutes == Needs("user.manage", {"settings.list", "settings.update"})
AuditRoutes == Needs("audit.read", {"audit.list"})

LicenseRoutes ==
  Needs("license.read", {"license.status"})
  \cup Needs("license.manage", {"license.refresh"})
  \cup Needs(Anyone, {"license.systemState", "license.activate", "license.activateSelfHosted"})

AiRoutes ==
  Needs("vm.read", {"ai.capabilities", "ai.chat", "ai.diagnoseVm", "ai.diagnoseNode",
                    "ai.execute"})

\* The scopes of a new key must be among the permissions of its owner.  The
\* form starts with the scope vm.read.
ApiKeyRoutes ==
  Needs(Anyone, {"apiKeys.list", "apiKeys.remove"})
  \cup Needs("vm.read", {"apiKeys.createWithFirstScope"})

AccountRoutes ==
  Needs(Anyone, {"auth.me", "auth.updateMe", "auth.changePassword", "auth.setupTotp",
                 "auth.confirmTotp", "auth.disableTotp", "auth.sessions",
                 "auth.revokeSession", "auth.revokeSessions"})

Routes ==
  VmRoutes \cup VmDeviceRoutes \cup ContainerRoutes \cup BackupRoutes \cup ScheduleRoutes \cup NodeRoutes
  \cup NetworkRoutes \cup StorageRoutes \cup TaskRoutes \cup AlertRoutes \cup WebhookRoutes
  \cup UserRoutes \cup RoleRoutes \cup SettingRoutes \cup AuditRoutes \cup LicenseRoutes \cup AiRoutes
  \cup ApiKeyRoutes \cup AccountRoutes

-----------------------------------------------------------------------------
(* States of objects, and the routes that look at them.                    *)

VmState == {"provisioning", "stopped", "running", "paused", "error", "deleting"}
RoleKind == {"system", "in use", "unused"}
Plain == "plain"  \* an object whose state no route looks at, or none
AnyState == VmState \cup RoleKind \cup {Plain}

Requires(states, requests) == {[states |-> states, request |-> r] : r \in requests}

StateChecks ==
  Requires({"stopped"}, {"vms.clone", "vms.migrate", "vms.resize", "vms.resizeDisk"})
  \cup Requires(VmState \ {"running"}, {"vms.addPci"})
  \cup Requires({"in use", "unused"}, {"roles.update"})
  \cup Requires({"unused"}, {"roles.delete"})

-----------------------------------------------------------------------------
(* The pages.                                                              *)

Offers(gate, states, requests) ==
  {[gate |-> gate, states |-> states, request |-> r] : r \in requests}

Layout ==
  Offers("license.read", AnyState, {"license.status"})

AiPanel ==
  Offers(Anyone, AnyState, {"ai.chat", "ai.execute"})

CommandPalette ==
  Offers("vm.read", AnyState, {"vms.list", "containers.list"})
  \cup Offers("node.read", AnyState, {"nodes.list"})

DashboardPage ==
  Offers(Anyone, AnyState, {"vms.list"})
  \cup Offers("vm.read", AnyState, {"containers.list"})
  \cup Offers("node.read", AnyState, {"nodes.list", "nodes.metrics", "tasks.list"})

VmListPage ==
  Offers(Anyone, AnyState, {"vms.list"})
  \cup Offers("node.read", AnyState, {"nodes.list"})
  \cup Offers("vm.power", {"stopped"}, {"vms.start"})
  \cup Offers("vm.power", {"running"}, {"vms.stop"})
  \cup Offers("vm.delete", AnyState, {"vms.remove"})

VmReads ==
  Offers(Anyone, AnyState, {"vms.get", "vms.listSnapshots"})
  \cup Offers("backup.read", AnyState, {"backups.list", "backups.listSchedules"})
  \cup Offers("vm.firewall", AnyState, {"vms.listFirewall"})
  \cup Offers("node.read", AnyState, {"nodes.list", "nodes.pciDevices"})
  \cup Offers("vm.manage", AnyState, {"storage.isos", "networks.list", "vms.listPci"})

MutantNoState == {"running", "stopped", "paused"}

\* The state in which the buttons are shown that open the dialogs below.
Movable == {"stopped"}

\* The dialogs of the page of a virtual machine.  Each is shown as long as a flag of the
\* page is set (showClone, showResize, showMigrate, showAddPci): only the button that
\* sets the flag looks at the permission and at the state.
VmDialogs ==
  Offers("vm.create", Movable, {"vms.clone", "vms.resize"})
  \cup Offers("vm.manage", Movable, {"vms.migrate", "vms.addPci"})

VmHeader ==
  Offers("vm.console", {"running"}, {"vms.console"})
  \cup Offers("vm.power", {"stopped"}, {"vms.start"})
  \cup Offers("vm.power", {"running"}, {"vms.restart", "vms.stop"})
  \cup Offers("vm.delete", AnyState, {"vms.remove"})

VmConfiguration ==
  Offers("vm.create", {"stopped"}, {"vms.resizeDisk"})
  \cup Offers("vm.manage", AnyState, {"vms.updateMeta", "vms.addNic", "vms.removeNic"})

VmPassthrough == Offers("vm.manage", {"stopped"}, {"vms.removePci"})

VmBackups ==
  Offers("backup.manage", AnyState,
         {"backups.create", "backups.restore", "backups.remove", "backups.createSchedule",
          "backups.updateSchedule", "backups.deleteSchedule"})

VmIso == Offers("vm.manage", AnyState, {"vms.mountIso", "vms.unmountIso"})

VmSnapshots ==
  Offers("vm.snapshot", AnyState, {"vms.createSnapshot", "vms.revert", "vms.deleteSnapshot"})

VmFirewall == Offers("vm.firewall", AnyState, {"vms.addRule", "vms.deleteRule"})

VmDetailPage ==
  VmReads \cup VmHeader \cup VmConfiguration \cup VmPassthrough \cup VmBackups \cup VmIso
  \cup VmSnapshots \cup VmFirewall \cup Offers(Anyone, AnyState, {"ai.diagnoseVm"})

CreateVmPage ==
  Offers(Anyone, AnyState,
         {"nodes.list", "nodes.get", "networks.list", "storage.templates", "vms.create"})

ContainersPage ==
  Offers(Anyone, AnyState, {"containers.list"})
  \cup Offers("node.read", AnyState, {"nodes.list"})
  \cup Offers("vm.power", {"stopped"}, {"containers.start"})
  \cup Offers("vm.power", {"running"}, {"containers.stop"})
  \cup Offers("vm.delete", AnyState, {"containers.remove"})

ContainerDetailPage ==
  Offers(Anyone, AnyState, {"containers.get", "ai.diagnoseContainer"})
  \cup Offers("vm.manage", {"stopped"}, {"containers.start", "containers.updateMeta"})
  \cup Offers("vm.manage", {"running"}, {"containers.restart", "containers.stop"})
  \cup Offers("vm.manage", AnyState, {"containers.updateMeta"})
  \cup Offers("vm.delete", AnyState, {"containers.remove"})

CreateContainerPage == Offers(Anyone, AnyState, {"nodes.list", "containers.create"})

NodesPage ==
  Offers(Anyone, AnyState, {"nodes.list"})
  \cup Offers("node.manage", AnyState, {"nodes.createJoinToken"})

NodeDetailPage ==
  Offers(Anyone, AnyState, {"nodes.get", "nodes.metrics", "ai.diagnoseNode"})
  \cup Offers("node.manage", AnyState, {"nodes.drain", "nodes.patch", "nodes.remove"})

NodePools ==
  Offers("node.manage", AnyState, {"nodes.createPool", "nodes.defaultPool", "nodes.removePool"})

NetworksPage ==
  Offers(Anyone, AnyState, {"networks.list"})
  \cup Offers("network.manage", AnyState, {"networks.create", "networks.deleteNetwork"})

NetworkListForwards ==
  Offers("network.read", AnyState, {"networks.listPortForwards"})
  \cup Offers("network.manage", AnyState,
              {"networks.createPortForward", "networks.deletePortForward"})

NetworkListPools ==
  Offers("network.manage", AnyState, {"networks.createPool", "networks.deletePool"})

NetworkOverview ==
  Offers(Anyone, AnyState, {"networks.getOne", "networks.listPortForwards"})
  \cup Offers("network.manage", AnyState, {"networks.deleteNetwork"})

NetworkPools ==
  Offers("network.manage", AnyState, {"networks.createPool", "networks.deletePool"})

NetworkForwards ==
  Offers("network.manage", AnyState,
         {"networks.createPortForward", "networks.deletePortForward"})

ClusterTab == Offers(Anyone, AnyState, {"nodes.list", "nodes.get"})

TemplatesTab ==
  Offers(Anyone, AnyState, {"storage.templates"})
  \cup Offers("storage.manage", AnyState, {"storage.createTemplate", "storage.deleteTemplate"})

IsosTab ==
  Offers(Anyone, AnyState, {"storage.isos"})
  \cup Offers("storage.manage", AnyState, {"storage.createIso", "storage.deleteIso"})

TasksPage == Offers(Anyone, AnyState, {"tasks.list"})

BackupSchedulesPage ==
  Offers(Anyone, AnyState,
         {"schedules.list", "schedules.toggle", "schedules.runNow", "schedules.remove"})

NewScheduleForm == Offers(Anyone, AnyState, {"schedules.create"})

AlertsPage ==
  Offers(Anyone, AnyState, {"alerts.list", "nodes.list", "webhooks.list", "alerts.create",
                            "alerts.update", "alerts.remove"})

WebhooksPage ==
  Offers(Anyone, AnyState, {"webhooks.list", "webhooks.deliveries", "webhooks.create",
                            "webhooks.update", "webhooks.remove"})

QuotaEditor ==
  Offers(Anyone, AnyState, {"roles.getQuota", "roles.putQuota", "roles.deleteQuota"})

UsersPage ==
  Offers(Anyone, AnyState, {"users.list", "users.create", "users.update", "users.remove"})

RolesSection ==
  Offers(Anyone, AnyState, {"roles.list", "roles.permissions", "roles.create"})
  \cup Offers(Anyone, {"in use", "unused"}, {"roles.update"})
  \cup Offers(Anyone, {"unused"}, {"roles.delete"})

ApiKeysPage ==
  Offers(Anyone, AnyState, {"apiKeys.list", "apiKeys.createWithFirstScope", "apiKeys.remove"})

AuditPage == Offers(Anyone, AnyState, {"audit.list"})
SystemSettingsPage == Offers(Anyone, AnyState, {"settings.list", "settings.update"})

ProfileSection == Offers(Anyone, AnyState, {"auth.updateMe"})
PasswordSection == Offers(Anyone, AnyState, {"auth.changePassword"})

TotpSection ==
  Offers(Anyone, AnyState, {"auth.setupTotp", "auth.confirmTotp", "auth.disableTotp"})

SessionsSection ==
  Offers(Anyone, AnyState, {"auth.sessions", "auth.revokeSession", "auth.revokeSessions"})

LicensePage ==
  Offers(Anyone, AnyState, {"license.status"})
  \cup Offers("license.manage", AnyState, {"license.refresh", "license.activate"})

AiAssistantPage == Offers(Anyone, AnyState, {"ai.chat", "ai.execute"})

PageAt ==
  [Dashboard |-> DashboardPage, Ai |-> AiAssistantPage, Vms |-> VmListPage,
   NewVm |-> CreateVmPage, Vm |-> VmDetailPage, Containers |-> ContainersPage,
   NewContainer |-> CreateContainerPage, Container |-> ContainerDetailPage,
   Nodes |-> NodesPage, Node |-> NodeDetailPage \cup NodePools,
   Networks |-> NetworksPage \cup NetworkListForwards \cup NetworkListPools,
   Network |-> NetworkOverview \cup NetworkPools \cup NetworkForwards,
   Storage |-> ClusterTab \cup TemplatesTab \cup IsosTab,
   Tasks |-> TasksPage, Schedules |-> BackupSchedulesPage \cup NewScheduleForm,
   Alerts |-> AlertsPage, Webhooks |-> WebhooksPage,
   Users |-> UsersPage \cup RolesSection \cup QuotaEditor, ApiKeys |-> ApiKeysPage,
   Audit |-> AuditPage, SystemSettings |-> SystemSettingsPage, License |-> LicensePage,
   Settings |-> ProfileSection \cup PasswordSection \cup TotpSection \cup SessionsSection]

Page == DOMAIN PageAt

OfPage(p) == PageAt[p] \cup Layout \cup AiPanel \cup CommandPalette

\* The requests that read the objects a page is about.
ReadBy(p) ==
  CASE p \in {"Vms"} -> "vms.list"
    [] p \in {"Vm"} -> "vms.get"
    [] p \in {"Containers"} -> "containers.list"
    [] p \in {"Container"} -> "containers.get"
    [] p \in {"Users"} -> "roles.list"
    [] OTHER -> "license.systemState"

StatesAt(p) ==
  CASE p \in {"Vms", "Vm", "Containers", "Container"} -> VmState
    [] p = "Users" -> RoleKind
    [] OTHER -> {Plain}

-----------------------------------------------------------------------------
(* The ways between the pages.                                             *)

Entries(gate, pages) == {[gate |-> gate, to |-> q] : q \in pages}

Menu ==
  Entries(Anyone, {"Dashboard", "ApiKeys", "Settings"})
  \cup Entries("vm.read", {"Ai", "Vms", "Containers"})
  \cup Entries("storage.read", {"Storage"})
  \cup Entries("node.read", {"Nodes", "Tasks", "Alerts", "Webhooks"})
  \cup Entries("network.read", {"Networks"})
  \cup Entries("vm.manage", {"Schedules"})
  \cup Entries("user.manage", {"Users", "SystemSettings"})
  \cup Entries("audit.read", {"Audit"})
  \cup Entries("license.read", {"License"})

Links(gate, from, to) == {[gate |-> gate, from |-> p, to |-> q] : p \in from, q \in to}

\* Links that are shown with the rows that a request has brought, or under a
\* permission that the page they lead to asks for.
PageLinks ==
  Links("vm.read", Page, {"Vm", "Container"})
  \cup Links("node.read", Page, {"Node"})
  \cup Links("vm.create", {"Vms"}, {"NewVm"})
  \cup Links("vm.create", {"Containers"}, {"NewContainer"})
  \cup Links("network.read", {"Networks"}, {"Network"})

\* Links to virtual machines and containers for users that need not be allowed
\* to see those.
CarelessLinks ==
  Links("node.read", {"Node"}, {"Vm"})
  \cup Links("node.read", {"Tasks"}, {"Vm", "Container"})
  \cup Links("vm.create", {"NewVm"}, {"Vm"})
  \cup Links("vm.create", {"NewContainer"}, {"Container"})
  \cup Links(Anyone, {"Dashboard"}, {"Vms", "Containers"})

-----------------------------------------------------------------------------
(* What the backend answers, and what may happen.                          *)

\* PermissionsGuard.
Allowed(r) ==
  \E p \in granted \cup {Anyone} : [permission |-> p, request |-> r] \in Routes

\* DiagnoseDto takes virtual machines and nodes, so there is no route for a
\* container; some services refuse an object in another state.
Acceptable(r) ==
  /\ Allowed(r)
  /\ \A check \in StateChecks : check.request = r => actual \in check.states

AccessInit ==
  /\ granted \in Grants
  /\ known = granted
  /\ page = "Dashboard"
  /\ settled = TRUE
  /\ actual = Plain
  /\ displayed = Plain
  /\ dialogs = {}

Open(q) ==
  /\ page' = q
  /\ actual' \in StatesAt(q)
  /\ displayed' = actual'

Hides(gate) == gate # Anyone /\ gate \notin known

\* login: the answer brings the permissions, LoginPage leads to the Dashboard.
SignIn ==
  /\ known' = granted
  /\ settled' = TRUE
  /\ Open("Dashboard")
  /\ dialogs' = {}
  /\ UNCHANGED granted

\* An address is typed, or the page loaded again: App has a route for each
\* page, whoever the user is, and /auth/me brings the permissions.
TypeAddress(q) ==
  /\ known' = granted
  /\ settled' = (q = "Dashboard")
  /\ Open(q)
  /\ dialogs' = {}
  /\ UNCHANGED granted

ChooseInMenu(entry) ==
  /\ ~Hides(entry.gate)
  /\ settled' = (known = granted)
  /\ Open(entry.to)
  /\ dialogs' = {}
  /\ UNCHANGED <<granted, known>>

\* From one virtual machine to another the page stays mounted, with its flags.
FollowLink(link) ==
  /\ link.from = page
  /\ ~Hides(link.gate)
  /\ settled' = (known = granted /\ link \in PageLinks)
  /\ Open(link.to)
  /\ dialogs' = IF page = "Vm" /\ link.to = "Vm" THEN dialogs ELSE {}
  /\ UNCHANGED <<granted, known>>

OpenDialog(o) ==
  /\ page = "Vm"
  /\ ~Hides(o.gate)
  /\ displayed \in o.states
  /\ dialogs' = dialogs \cup {o}
  /\ UNCHANGED <<granted, known, page, settled, actual, displayed>>

\* Its request is sent, or it is cancelled.
CloseDialog(o) ==
  /\ o \in dialogs
  /\ dialogs' = dialogs \ {o}
  /\ UNCHANGED <<granted, known, page, settled, actual, displayed>>

\* An administrator changes the role, or gives the user another one.
RoleChanges ==
  /\ granted' \in Grants \ {granted}
  /\ settled' = FALSE
  /\ UNCHANGED <<known, page, actual, displayed, dialogs>>

ObjectChanges ==
  /\ actual' \in StatesAt(page) \ {actual}
  /\ UNCHANGED <<granted, known, page, settled, displayed, dialogs>>

Refetch ==
  /\ displayed # actual
  /\ Acceptable(ReadBy(page))
  /\ displayed' = actual
  /\ UNCHANGED <<granted, known, page, settled, actual, dialogs>>

AccessNext ==
  \/ SignIn
  \/ \E q \in Page : TypeAddress(q)
  \/ \E entry \in Menu : ChooseInMenu(entry)
  \/ \E link \in PageLinks \cup CarelessLinks : FollowLink(link)
  \/ \E o \in VmDialogs : OpenDialog(o) \/ CloseDialog(o)
  \/ RoleChanges
  \/ ObjectChanges
  \/ Refetch

AccessSpec == AccessInit /\ [][AccessNext]_accessVars

-----------------------------------------------------------------------------
(* Properties.                                                             *)

\* What the page asks by itself or lets the user ask.
Offered == {o \in OfPage(page) : ~Hides(o.gate) /\ displayed \in o.states} \cup dialogs

\* What pages offer although the backend refuses it to some whom the menu or a
\* link has led there: queries without a condition, the card of an API key that
\* starts with a scope its owner may lack, a diagnosis of a container, for which
\* there is no route, and the list of containers, where vm.power shows buttons
\* of routes that ask for vm.manage.
PageGaps ==
  {<<"Dashboard", "vms.list">>, <<"NewVm", "nodes.list">>, <<"NewVm", "nodes.get">>,
   <<"NewVm", "networks.list">>, <<"NewContainer", "nodes.list">>,
   <<"Storage", "nodes.list">>, <<"Storage", "nodes.get">>, <<"Node", "ai.diagnoseNode">>,
   <<"Container", "ai.diagnoseContainer">>, <<"Containers", "containers.start">>,
   <<"Containers", "containers.stop">>, <<"ApiKeys", "apiKeys.createWithFirstScope">>}

\* The panel of the assistant opens on every page, for everyone.
Gaps == PageGaps \cup (Page \X {"ai.chat", "ai.execute"})

\* A dialog that was opened in another state than the page shows now.
LeftOpen(o) == o \in dialogs /\ displayed \notin o.states

\* A user who came to a page by the menu or by a link, whose permissions and
\* whose object are as the app believes, is offered nothing there that the
\* backend then refuses: the conditions in the pages (can(...), the state of
\* the object, the menu) and those in the controllers and services agree, but
\* for Gaps.  A dialog that was left open while the virtual machine started
\* goes on offering what is refused because of the state; it is never one
\* that the user has not the permission for.
OfferedIsAccepted ==
  settled /\ displayed = actual =>
    \A o \in Offered :
      \/ Acceptable(o.request)
      \/ <<page, o.request>> \in Gaps
      \/ LeftOpen(o) /\ Allowed(o.request)

\* What docs/SECURITY.md says of the seeded role of administrators: it holds
\* every permission, so that no route of the controllers refuses an administrator.
AdminMayDoEverything ==
  granted = Permissions => \A route \in Routes : Allowed(route.request)
=============================================================================
