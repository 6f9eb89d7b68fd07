------------------------------ MODULE WebPages ------------------------------
(***************************************************************************)
(* The pages and forms of the four front ends, each by its shape: what     *)
(* WebApps needs to know of the component to say how it behaves.           *)
(*                                                                         *)
(* A page is [app, marks]: the app it belongs to, and the marks            *)
(*   scoped   its list depends on a selection and is loaded on every change*)
(*   clears   a load first empties the list                                *)
(*   silent   a failed load shows an empty list                            *)
(*   waits    its refresh button is disabled while a load runs             *)
(*   nearest  its selection is the outlet of useOutletSelection            *)
(* A form is [once, parts, patch, ok, again, reloads, qris, sheet]:        *)
(*   once     a second submission waits for the first: while the page is   *)
(*            mounted, within one opening of the sheet, or never           *)
(*   parts    what is committed in separate steps: two requests, or one    *)
(*            request that the backend handles in two statements           *)
(*   patch    the list is changed in place "before" the request or "after" *)
(*            its success                                                  *)
(*   ok       what follows a success: close the sheet, load, leave the page*)
(*   again    the sheet says so until it is closed, and then loads (again) *)
(*   reloads  an error loads the list again                                *)
(*   qris     the answer is a QRIS to pay, and the success is the order    *)
(*            that the pane of the QRIS finds paid                         *)
(*   sheet    the form is a sheet                                          *)
(* Equal shapes are one screen to the model checker; every component keeps *)
(* its line here, so that a change of its handler has a place to go.       *)
(***************************************************************************)

\* The api() of each app: all but web-internal's leave for /masuk on a 401.
AdminApp == [bounces |-> TRUE]
AgentApp == [bounces |-> TRUE]
InternalApp == [bounces |-> FALSE]
StoreApp == [bounces |-> TRUE]

List(app, marks) == [app |-> app, marks |-> marks]

SheetForm ==
    [once |-> "mounted", parts |-> 1, patch |-> "no", ok |-> {"close", "load"},
     again |-> FALSE, reloads |-> FALSE, qris |-> FALSE, sheet |-> TRUE]
Button == [SheetForm EXCEPT !.sheet = FALSE, !.ok = {"load"}]
Toggle == [Button EXCEPT !.once = "never", !.ok = {}]
NoForm == [Button EXCEPT !.parts = 0]

(***************************************************************************)
(* web-admin: the owner's console.                                         *)
(***************************************************************************)
AdminDashboard == List(AdminApp, {})
AdminReports == List(AdminApp, {"waits"})
AdminAccount == List(AdminApp, {})

AdminPackages == List(AdminApp, {"scoped", "clears"})
AdminPackageToggle == [Toggle EXCEPT !.patch = "before", !.reloads = TRUE]
AdminPackageProfiles == List(AdminApp, {"scoped"})
AdminEditPackage == SheetForm
AdminCreatePackage == SheetForm

AdminOutlets == List(AdminApp, {})
AdminOutletToggle == [Toggle EXCEPT !.patch = "before", !.reloads = TRUE]
AdminCreateOutlet == SheetForm
AdminEditOutlet == [SheetForm EXCEPT !.parts = 2]      \* outlet, then voucher format

AdminAgents == List(AdminApp, {"clears"})
AdminCreateAgent == [SheetForm EXCEPT !.parts = 2]     \* agent row, then its outlets
AdminAgentDetail == List(AdminApp, {})
AdminAgentStatus == [Toggle EXCEPT !.patch = "after"]
AdminAgentOutlets == Button
AdminAgentRemove == [Toggle EXCEPT !.ok = {"leave"}]
AdminEditAgent == [SheetForm EXCEPT !.parts = 2]       \* brand move drops links, then row
AdminTopUpAgent == SheetForm
AdminAgentDiscount == SheetForm
AdminAgentReset == SheetForm

AdminCustomers == List(AdminApp, {"scoped", "clears"})
AdminCreateCustomer == SheetForm
AdminEditCustomer == SheetForm
AdminCustomerDetail == List(AdminApp, {"scoped"})
AdminTopUpCustomer == SheetForm

AdminTransactions == List(AdminApp, {"scoped", "clears"})
AdminDeleteTransactions == Button

AdminSettings == List(AdminApp, {})
AdminRouter == SheetForm
AdminRouterTest == [SheetForm EXCEPT !.ok = {}]        \* saves, then tests
AdminQris == List(AdminApp, {})
AdminQrisSheet == [SheetForm EXCEPT !.parts = 2]       \* account, then its outlets
AdminGobiz == SheetForm
AdminWhatsapp == Button

AdminBrands == List(AdminApp, {})
AdminBrandSheet == SheetForm

AdminProviders == List(AdminApp, {})
AdminCreateProvider == SheetForm
AdminAssignProvider == SheetForm
AdminProviderDetail == [SheetForm EXCEPT !.ok = {"load"}]

AdminAssistants == List(AdminApp, {})
AdminAssistantToggle == [Toggle EXCEPT !.ok = {"load"}]
AdminCreateAssistant == [SheetForm EXCEPT !.parts = 2] \* account, then its outlets
AdminAssistantAccess == SheetForm

Console ==
    {[page |-> p, form |-> NoForm] :
        p \in {AdminDashboard, AdminReports, AdminAccount, AdminPackageProfiles,
               AdminCustomerDetail}}
    \cup {[page |-> AdminPackages, form |-> f] :
        f \in {AdminPackageToggle, AdminEditPackage, AdminCreatePackage}}
    \cup {[page |-> AdminOutlets, form |-> f] :
        f \in {AdminOutletToggle, AdminCreateOutlet, AdminEditOutlet}}
    \cup {[page |-> AdminAgents, form |-> AdminCreateAgent]}
    \cup {[page |-> AdminAgentDetail, form |-> f] :
        f \in {AdminAgentStatus, AdminAgentOutlets, AdminAgentRemove, AdminEditAgent,
               AdminTopUpAgent, AdminAgentDiscount, AdminAgentReset}}
    \cup {[page |-> AdminCustomers, form |-> f] :
        f \in {AdminCreateCustomer, AdminEditCustomer, AdminTopUpCustomer}}
    \cup {[page |-> AdminTransactions, form |-> AdminDeleteTransactions],
          [page |-> AdminQris, form |-> AdminQrisSheet],
          [page |-> AdminQris, form |-> AdminGobiz],
          [page |-> AdminBrands, form |-> AdminBrandSheet]}
    \cup {[page |-> AdminSettings, form |-> f] :
        f \in {AdminRouter, AdminRouterTest, AdminWhatsapp}}
    \cup {[page |-> AdminProviders, form |-> f] :
        f \in {AdminCreateProvider, AdminAssignProvider, AdminProviderDetail}}
    \cup {[page |-> AdminAssistants, form |-> f] :
        f \in {AdminAssistantToggle, AdminCreateAssistant, AdminAssistantAccess}}

(***************************************************************************)
(* web-agent: the agent's app.                                             *)
(***************************************************************************)
AgentHome == List(AgentApp, {})
AgentHistory == List(AgentApp, {})
AgentAccount == List(AgentApp, {"silent", "waits"})

AgentSell == List(AgentApp, {"scoped", "clears"})
AgentSellBatch == [Button EXCEPT !.parts = 2, !.ok = {}]   \* one sale after another
AgentPrices == List(AgentApp, {"scoped", "clears"})
AgentSetPrice == [Toggle EXCEPT !.patch = "after"]
AgentContacts == List(AgentApp, {})
AgentContactDelete == [Toggle EXCEPT !.patch = "after"]
AgentContactSheet == SheetForm
AgentWallet == List(AgentApp, {})
AgentTopUp == [Button EXCEPT !.qris = TRUE]

AgentScreens ==
    {[page |-> p, form |-> NoForm] : p \in {AgentHome, AgentHistory, AgentAccount}}
    \cup {[page |-> AgentSell, form |-> AgentSellBatch],
          [page |-> AgentPrices, form |-> AgentSetPrice],
          [page |-> AgentContacts, form |-> AgentContactDelete],
          [page |-> AgentContacts, form |-> AgentContactSheet],
          [page |-> AgentWallet, form |-> AgentTopUp]}

(***************************************************************************)
(* web-internal: owner and agent in one app.                               *)
(***************************************************************************)
InternalDashboard == List(InternalApp, {})
InternalOwnerAccount == List(InternalApp, {})
InternalPackages == List(InternalApp, {"scoped", "clears"})
InternalPackageToggle == [Toggle EXCEPT !.patch = "before", !.reloads = TRUE]
InternalEditPackage == SheetForm
InternalAgents == List(InternalApp, {"clears"})
InternalCreateAgent == [SheetForm EXCEPT !.parts = 2]
InternalAgentDetail == List(InternalApp, {})
InternalAgentStatus == [Toggle EXCEPT !.patch = "after"]
InternalAgentOutlets == Button
InternalAgentReset == SheetForm
InternalCustomers == List(InternalApp, {"scoped", "clears"})
InternalTopUpCustomer == SheetForm

InternalAgentHome == List(InternalApp, {})
InternalHistory == List(InternalApp, {})
InternalAgentAccount == List(InternalApp, {})
InternalSell == List(InternalApp, {"scoped", "clears"})
InternalSellOne == [Button EXCEPT !.ok = {}]
InternalWallet == List(InternalApp, {})
InternalTopUp == [Button EXCEPT !.qris = TRUE]

InternalScreens ==
    {[page |-> p, form |-> NoForm] :
        p \in {InternalDashboard, InternalOwnerAccount, InternalAgentHome,
               InternalHistory, InternalAgentAccount}}
    \cup {[page |-> InternalPackages, form |-> f] :
        f \in {InternalPackageToggle, InternalEditPackage}}
    \cup {[page |-> InternalAgentDetail, form |-> f] :
        f \in {InternalAgentStatus, InternalAgentOutlets, InternalAgentReset}}
    \cup {[page |-> InternalAgents, form |-> InternalCreateAgent],
          [page |-> InternalCustomers, form |-> InternalTopUpCustomer],
          [page |-> InternalSell, form |-> InternalSellOne],
          [page |-> InternalWallet, form |-> InternalTopUp]}

(***************************************************************************)
(* web: the customers' storefront.                                         *)
(***************************************************************************)
StoreHome == List(StoreApp, {"scoped", "nearest", "silent"})
StoreBalance == List(StoreApp, {})
StoreBuyWithBalance == [SheetForm EXCEPT !.once = "opening", !.ok = {"load"}, !.again = TRUE]
StoreBuyWithQris == [StoreBuyWithBalance EXCEPT !.qris = TRUE, !.ok = {}]
StoreTopUp == [StoreBuyWithBalance EXCEPT !.qris = TRUE]
StoreHistory == List(StoreApp, {"silent"})
StoreVouchers == List(StoreApp, {"silent"})
StoreProvider == List(StoreApp, {})
StoreSetProvider == [Button EXCEPT !.patch = "after", !.ok = {}]
StoreSignUp == List(StoreApp, {"silent"})
StoreRegister == [Button EXCEPT !.ok = {"leave"}]

Storefront ==
    {[page |-> StoreHome, form |-> NoForm]}
    \cup {[page |-> StoreBalance, form |-> f] :
        f \in {StoreBuyWithBalance, StoreBuyWithQris, StoreTopUp}}
    \cup {[page |-> StoreHistory, form |-> NoForm], [page |-> StoreVouchers, form |-> NoForm],
          [page |-> StoreProvider, form |-> StoreSetProvider],
          [page |-> StoreSignUp, form |-> StoreRegister]}

AllScreens == Console \cup AgentScreens \cup InternalScreens \cup Storefront
=============================================================================
