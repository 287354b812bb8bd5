------------------------------- MODULE Routes -------------------------------
(***************************************************************************)
(* The HTTP surface: one record for each handler, with what its route asks *)
(* of the caller before the handler runs, what the handler and the service *)
(* under it check, and what its comment and annotations promise.           *)
(*                                                                         *)
(*   scope   "public", "user" (RequireAuth), "org" (and RequireOrgContext) *)
(*           or "admin" (and RequireSuperAdmin)                            *)
(*   gate    the permission RequirePermission asks for, or NoGate          *)
(*   min     the role the service asks the membership row for, or "ANY"    *)
(*   own     the service lets the owner of the row through whatever min is *)
(*   denied  the status of a member below min who does not own the row     *)
(*   gone    the status of a caller whose membership row is gone by then   *)
(*   nokey   the status the handler answers to an API key, or 0            *)
(*   parses  the handler answers 400 to input that it cannot read          *)
(*   ok      the status of a success                                       *)
(*   errs    the statuses its errors are turned into                       *)
(*   doc     the role its comment names, or "ANY"                          *)
(*   fails   the failures its annotations list                             *)
(***************************************************************************)
EXTENDS Integers

NoGate == <<>>
NotMember == "NONE"

\* MemberRole.Level; a caller without a membership row is below them all.
Level(r) ==
    CASE r = "OWNER" -> 3
      [] r = "ADMIN" -> 2
      [] r = "MEMBER" -> 1
      [] OTHER -> 0

Access(scope, gate, min, own, denied, doc) ==
    [scope |-> scope, gate |-> gate, min |-> min, own |-> own, denied |-> denied, gone |-> 404, nokey |-> 0, doc |-> doc]

\* A handler behind access a.
Handler(a, name, parses, ok, errs, fails) ==
    [name |-> name, parses |-> parses, ok |-> ok, errs |-> errs, fails |-> fails,
     scope |-> a.scope, gate |-> a.gate, min |-> a.min, own |-> a.own, denied |-> a.denied,
     gone |-> a.gone, nokey |-> a.nokey, doc |-> a.doc]

Public == Access("public", NoGate, "ANY", FALSE, 0, "ANY")
Signed == Access("user", NoGate, "ANY", FALSE, 0, "ANY")
Platform == Access("admin", NoGate, "ANY", FALSE, 0, "ANY")
OwnRow == Access("user", NoGate, "OWN", TRUE, 404, "ANY")
OwnOrManaged == Access("user", NoGate, "ADMIN", TRUE, 404, "ANY")
Gated(obj, act, doc) == Access("org", <<obj, act>>, "ANY", FALSE, 0, doc)
Checked(obj, act, min, doc) == Access("org", <<obj, act>>, min, FALSE, 403, doc)
Ungated(min, own, doc) == Access("org", NoGate, min, own, 403, doc)
OwnersOnly == [Ungated("OWNER", FALSE, "OWNER") EXCEPT !.gone = 403]
NoKeys(status, access) == [access EXCEPT !.nokey = status]

(***************************************************************************)
(* What each domain turns the errors of its service into                   *)
(***************************************************************************)
adminErrorStatus == {400, 404}
attendeeErrorStatus == {400, 403, 404, 500}
auditError == {400}
checkinErrorStatus == {400, 404, 413, 422, 503}
eventErrorStatus == {400, 402, 403, 404, 409, 500}
kitErrorStatus == {400, 402, 404, 409, 422}
orderErrorStatus == {400, 403, 404, 409, 500}
orgErrorStatus == {400, 402, 403, 404, 409, 500}
apiKeyErrorStatus == {400, 403, 404, 402, 409, 500}
paymentErrorStatus == {400, 404, 500, 503}
subWireError == {400, 403, 404, 409, 503}
ticketErrorStatus == {400, 403, 404, 409, 500}

(***************************************************************************)
(* Accounts                                                                *)
(***************************************************************************)
Register == Handler(Public, "Register", TRUE, 201, {409, 500}, {400, 409, 500})
VerifyEmail == Handler(Public, "VerifyEmail", TRUE, 200, {400, 409, 500}, {400, 409, 500})
VerifyByCode == Handler(Public, "VerifyByCode", TRUE, 200, {400, 429, 500}, {400, 429, 500})
ResendVerification == Handler(Public, "ResendVerification", TRUE, 200, {429, 500}, {400, 429, 500})
Login == Handler(Public, "Login", TRUE, 200, {401, 403, 500}, {400, 401, 403, 500})
Refresh == Handler(Public, "Refresh", TRUE, 200, {401}, {400, 401})
ForgotPassword == Handler(Public, "ForgotPassword", TRUE, 200, {}, {400})
ResetPassword == Handler(Public, "ResetPassword", TRUE, 200, {400, 409, 500}, {400, 409, 500})
Logout == Handler(NoKeys(401, Signed), "Logout", FALSE, 200, {500}, {401, 500})
Me == Handler(Signed, "Me", FALSE, 200, {401}, {401})

AuthRoutes ==
    {Register, VerifyEmail, VerifyByCode, ResendVerification, Login, Refresh, ForgotPassword, ResetPassword, Logout, Me}

(***************************************************************************)
(* Organizations, roles, API keys                                          *)
(***************************************************************************)
CreateOrg == Handler(Signed, "CreateOrg", TRUE, 201, orgErrorStatus, {400, 401, 409})
ListMyOrgs == Handler(Signed, "ListMyOrgs", FALSE, 200, {500}, {401})
GetOrg == Handler(Checked("org", "read", "MEMBER", "MEMBER"), "GetOrg", FALSE, 200, orgErrorStatus, {401, 404})
UpdateOrg ==
    Handler(Checked("org", "update", "ADMIN", "ADMIN"), "UpdateOrg", TRUE, 200, orgErrorStatus, {400, 401, 403, 404, 409})
DeleteOrg == Handler(Checked("org", "delete", "OWNER", "OWNER"), "DeleteOrg", FALSE, 200, orgErrorStatus, {401, 403, 404})
ListMembers ==
    Handler(Checked("member", "read", "MEMBER", "MEMBER"), "ListMembers", FALSE, 200, orgErrorStatus, {401, 404})
AddMember ==
    Handler(Checked("member", "create", "ADMIN", "ADMIN"), "AddMember", TRUE, 201, orgErrorStatus, {400, 401, 403, 404, 409})
UpdateMemberRole ==
    Handler(Checked("member", "update", "OWNER", "OWNER"), "UpdateMemberRole", TRUE, 200, orgErrorStatus,
            {400, 401, 403, 404, 409})
RemoveMember ==
    Handler(Ungated("ADMIN", TRUE, "MEMBER"), "RemoveMember", TRUE, 200, orgErrorStatus, {401, 403, 404, 409})
InviteMember ==
    Handler(Checked("invite", "create", "ADMIN", "ADMIN"), "InviteMember", TRUE, 201, orgErrorStatus,
            {400, 401, 403, 404, 409})
ListInvites ==
    Handler(Checked("invite", "read", "ADMIN", "ADMIN"), "ListInvites", FALSE, 200, orgErrorStatus, {401, 403, 404})
RevokeInvite ==
    Handler(Checked("invite", "delete", "ADMIN", "ADMIN"), "RevokeInvite", TRUE, 200, orgErrorStatus, {401, 403, 404})
AcceptInvite == Handler(Signed, "AcceptInvite", TRUE, 200, orgErrorStatus, {400, 401})
DeclineInvite == Handler(Signed, "DeclineInvite", TRUE, 200, orgErrorStatus, {400, 401, 409})
UpdateMyPreferences ==
    Handler(Ungated("MEMBER", FALSE, "MEMBER"), "UpdateMyPreferences", TRUE, 200, orgErrorStatus, {400, 401, 404})
ListRoles == Handler(Checked("role", "read", "ADMIN", "ADMIN"), "ListRoles", FALSE, 200, orgErrorStatus, {401, 403, 404})
DefineRole ==
    Handler(Checked("role", "create", "OWNER", "OWNER"), "DefineRole", TRUE, 201, orgErrorStatus, {400, 401, 403, 404, 409})
UpdateRole ==
    Handler(Checked("role", "update", "OWNER", "OWNER"), "UpdateRole", TRUE, 200, orgErrorStatus, {400, 401, 403, 404})
DeleteRole ==
    Handler(Checked("role", "delete", "OWNER", "OWNER"), "DeleteRole", FALSE, 200, orgErrorStatus, {401, 403, 404, 409})
AssignRole ==
    Handler(Checked("role", "update", "OWNER", "OWNER"), "AssignRole", TRUE, 200, orgErrorStatus, {400, 401, 403, 404})
UnassignRole ==
    Handler(Checked("role", "update", "OWNER", "OWNER"), "UnassignRole", TRUE, 200, orgErrorStatus, {400, 401, 403, 404})
CreateApiKey ==
    Handler(NoKeys(403, Checked("apikey", "create", "ADMIN", "ADMIN")), "CreateApiKey", TRUE, 201, apiKeyErrorStatus,
            {400, 401, 403, 404})
ListApiKeys ==
    Handler(NoKeys(403, Checked("apikey", "read", "ADMIN", "ADMIN")), "ListApiKeys", FALSE, 200, apiKeyErrorStatus,
            {401, 403, 404})
RevokeApiKey ==
    Handler(NoKeys(403, Checked("apikey", "delete", "ADMIN", "ADMIN")), "RevokeApiKey", TRUE, 204, apiKeyErrorStatus,
            {401, 403, 404})

OrgRoutes ==
    {CreateOrg, ListMyOrgs, GetOrg, UpdateOrg, DeleteOrg, ListMembers, AddMember, UpdateMemberRole, RemoveMember,
     InviteMember, ListInvites, RevokeInvite, AcceptInvite, DeclineInvite, UpdateMyPreferences, ListRoles, DefineRole,
     UpdateRole, DeleteRole, AssignRole, UnassignRole, CreateApiKey, ListApiKeys, RevokeApiKey}

(***************************************************************************)
(* Events, tickets, orders, payments                                       *)
(***************************************************************************)
CreateEvent == Handler(Gated("event", "create", "ADMIN"), "CreateEvent", TRUE, 201, eventErrorStatus, {400, 401, 403, 404})
ListOrgEvents == Handler(Gated("event", "read", "MEMBER"), "ListOrgEvents", TRUE, 200, eventErrorStatus, {401, 403, 404})
GetOrgEvent == Handler(Gated("event", "read", "MEMBER"), "GetOrgEvent", FALSE, 200, eventErrorStatus, {401, 403, 404})
UpdateEvent ==
    Handler(Gated("event", "update", "ADMIN"), "UpdateEvent", TRUE, 200, eventErrorStatus, {400, 401, 403, 404, 409})
DeleteEvent == Handler(Gated("event", "delete", "OWNER"), "DeleteEvent", FALSE, 200, eventErrorStatus, {401, 403, 404})
PublishEvent ==
    Handler(Gated("event", "publish", "ADMIN"), "PublishEvent", FALSE, 200, eventErrorStatus, {400, 401, 403, 404})
UnpublishEvent ==
    Handler(Gated("event", "publish", "ADMIN"), "UnpublishEvent", FALSE, 200, eventErrorStatus, {400, 401, 403, 404})
CancelEvent == Handler(Gated("event", "publish", "ADMIN"), "CancelEvent", FALSE, 200, eventErrorStatus, {400, 401, 403, 404})
UploadCover == Handler(Gated("event", "update", "ADMIN"), "UploadCover", TRUE, 200, eventErrorStatus, {400, 401, 403, 404})
UploadGallery ==
    Handler(Gated("event", "update", "ADMIN"), "UploadGallery", TRUE, 201, eventErrorStatus, {400, 401, 403, 404})
ListImages == Handler(Gated("event", "read", "MEMBER"), "ListImages", FALSE, 200, eventErrorStatus, {401, 403, 404})
ListPublicEvents == Handler(Public, "ListPublicEvents", TRUE, 200, eventErrorStatus, {400})
GetPublicEvent == Handler(Public, "GetPublicEvent", TRUE, 200, eventErrorStatus, {400, 404})

EventRoutes ==
    {CreateEvent, ListOrgEvents, GetOrgEvent, UpdateEvent, DeleteEvent, PublishEvent, UnpublishEvent, CancelEvent,
     UploadCover, UploadGallery, ListImages, ListPublicEvents, GetPublicEvent}

CreateTicket ==
    Handler(Gated("ticket", "create", "ADMIN"), "CreateTicket", TRUE, 201, ticketErrorStatus, {400, 401, 403, 404, 409})
ListTickets == Handler(Gated("ticket", "read", "MEMBER"), "ListTickets", FALSE, 200, ticketErrorStatus, {401, 403, 404})
GetTicket == Handler(Gated("ticket", "read", "MEMBER"), "GetTicket", FALSE, 200, ticketErrorStatus, {401, 403, 404})
UpdateTicket ==
    Handler(Gated("ticket", "update", "ADMIN"), "UpdateTicket", TRUE, 200, ticketErrorStatus, {400, 401, 403, 404, 409})
DeleteTicket ==
    Handler(Gated("ticket", "delete", "ADMIN"), "DeleteTicket", FALSE, 200, ticketErrorStatus, {401, 403, 404, 409})
ActivateTicket ==
    Handler(Gated("ticket", "update", "ADMIN"), "ActivateTicket", FALSE, 200, ticketErrorStatus, {400, 401, 403, 404})
PauseTicket ==
    Handler(Gated("ticket", "update", "ADMIN"), "PauseTicket", FALSE, 200, ticketErrorStatus, {400, 401, 403, 404})
ListPublicTickets == Handler(Public, "ListPublicTickets", TRUE, 200, ticketErrorStatus, {400, 404})

TicketRoutes ==
    {CreateTicket, ListTickets, GetTicket, UpdateTicket, DeleteTicket, ActivateTicket, PauseTicket, ListPublicTickets}

CreateOrder == Handler(Signed, "CreateOrder", TRUE, 201, orderErrorStatus, {400, 401, 404, 409})
ListMyOrders == Handler(Signed, "ListMyOrders", FALSE, 200, {500}, {401})
GetOrder == Handler(OwnOrManaged, "GetOrder", TRUE, 200, orderErrorStatus, {401, 404})
CancelOrder == Handler(OwnOrManaged, "CancelOrder", TRUE, 200, orderErrorStatus, {400, 401, 404})

OrderRoutes == {CreateOrder, ListMyOrders, GetOrder, CancelOrder}

CreateCheckout == Handler(OwnRow, "CreateCheckout", TRUE, 200, paymentErrorStatus, {400, 401, 404, 503})
StripeWebhook == Handler(Public, "StripeWebhook", TRUE, 200, {400}, {400})

PaymentRoutes == {CreateCheckout, StripeWebhook}

GetPlans == Handler(Public, "GetPlans", FALSE, 200, {}, {})
GetSubscription == Handler(Ungated("ANY", FALSE, "MEMBER"), "GetSubscription", FALSE, 200, {500}, {401, 404})
StartCheckout == Handler(OwnersOnly, "StartCheckout", TRUE, 201, subWireError, {400, 401, 403, 404, 409, 503})
CreatePortalSession == Handler(OwnersOnly, "CreatePortalSession", FALSE, 200, subWireError, {401, 403, 404, 503})

SubscriptionRoutes == {GetPlans, GetSubscription, StartCheckout, CreatePortalSession}

(***************************************************************************)
(* Roster, door, kits                                                      *)
(***************************************************************************)
AddAttendee ==
    Handler(Gated("attendee", "create", "ADMIN"), "AddAttendee", TRUE, 201, attendeeErrorStatus, {400, 401, 403, 404})
ListRoster == Handler(Gated("attendee", "read", "ADMIN"), "ListRoster", FALSE, 200, {404, 500}, {401, 403, 404})
CorrectAttendee ==
    Handler(Gated("attendee", "update", "ADMIN"), "CorrectAttendee", TRUE, 200, attendeeErrorStatus, {400, 401, 403, 404})
ListMine == Handler(Signed, "ListMine", FALSE, 200, {500}, {401})
GetMine == Handler(OwnRow, "GetMine", TRUE, 200, attendeeErrorStatus, {401, 404})
CancelMine == Handler(OwnRow, "CancelMine", TRUE, 200, attendeeErrorStatus, {401, 404, 409})

AttendeeRoutes == {AddAttendee, ListRoster, CorrectAttendee, ListMine, GetMine, CancelMine}

Scan == Handler(Gated("checkin", "create", "ADMIN"), "Scan", TRUE, 200, checkinErrorStatus, {400, 401, 403, 404})
ScanBatch ==
    Handler(Gated("checkin", "create", "ADMIN"), "ScanBatch", TRUE, 200, checkinErrorStatus, {400, 401, 403, 404, 413})
Stats == Handler(Gated("checkin", "read", "ADMIN"), "Stats", FALSE, 200, checkinErrorStatus, {401, 403, 404})
Revert == Handler(Gated("checkin", "update", "ADMIN"), "Revert", TRUE, 200, checkinErrorStatus, {400, 401, 403, 404, 422})

CheckinRoutes == {Scan, ScanBatch, Stats, Revert}

CreateKit == Handler(Gated("kit", "create", "ADMIN"), "CreateKit", TRUE, 201, kitErrorStatus, {400, 401, 403, 404})
ListKits == Handler(Gated("kit", "read", "ADMIN"), "ListKits", FALSE, 200, kitErrorStatus, {401, 403, 404})
UpdateKit == Handler(Gated("kit", "update", "ADMIN"), "UpdateKit", TRUE, 200, kitErrorStatus, {400, 401, 403, 404, 422})
DeleteKit == Handler(Gated("kit", "delete", "ADMIN"), "DeleteKit", FALSE, 204, kitErrorStatus, {401, 403, 404, 422})
Collect == Handler(Gated("kit", "update", "ADMIN"), "Collect", TRUE, 201, kitErrorStatus, {400, 401, 403, 404, 409, 422})
MarkCollected == Handler(Gated("kit", "update", "ADMIN"), "MarkCollected", FALSE, 200, kitErrorStatus, {401, 403, 404, 422})
Void == Handler(Gated("kit", "update", "ADMIN"), "Void", FALSE, 200, kitErrorStatus, {401, 403, 404, 422})
ListCollections ==
    Handler(Gated("kit", "read", "ADMIN"), "ListCollections", TRUE, 200, kitErrorStatus, {400, 401, 403, 404})
ListKitCollections ==
    Handler(Gated("kit", "read", "ADMIN"), "ListKitCollections", FALSE, 200, kitErrorStatus, {400, 401, 403, 404})

KitRoutes ==
    {CreateKit, ListKits, UpdateKit, DeleteKit, Collect, MarkCollected, Void, ListCollections, ListKitCollections}

(***************************************************************************)
(* Audit trail and platform administration                                 *)
(***************************************************************************)
ListOrg == Handler(Gated("audit", "read", "ADMIN"), "ListOrg", TRUE, 200, auditError, {401, 403, 404})
ListPlatform == Handler(Platform, "ListPlatform", TRUE, 200, auditError, {401, 403})

AuditRoutes == {ListOrg, ListPlatform}

ListOrgs == Handler(Platform, "ListOrgs", TRUE, 200, {400}, {401, 403})
AdminGetOrg == Handler(Platform, "AdminGetOrg", TRUE, 200, adminErrorStatus, {400, 401, 403, 404})
SearchUsers == Handler(Platform, "SearchUsers", TRUE, 200, {400}, {401, 403})
GetUser == Handler(Platform, "GetUser", TRUE, 200, adminErrorStatus, {400, 401, 403, 404})
ListUserOrders == Handler(Platform, "ListUserOrders", TRUE, 200, adminErrorStatus, {400, 401, 403, 404})
ReseedOrgPolicies == Handler(Platform, "ReseedOrgPolicies", TRUE, 200, adminErrorStatus, {400, 401, 403, 404})
SyncUserPolicies == Handler(Platform, "SyncUserPolicies", TRUE, 200, adminErrorStatus, {400, 401, 403, 404})

AdminRoutes == {ListOrgs, AdminGetOrg, SearchUsers, GetUser, ListUserOrders, ReseedOrgPolicies, SyncUserPolicies}

\* Everything mounted under /api/v1.
Routes ==
    AuthRoutes \cup OrgRoutes \cup EventRoutes \cup TicketRoutes \cup OrderRoutes \cup PaymentRoutes
    \cup SubscriptionRoutes \cup AttendeeRoutes \cup CheckinRoutes \cup KitRoutes \cup AuditRoutes \cup AdminRoutes
=============================================================================
