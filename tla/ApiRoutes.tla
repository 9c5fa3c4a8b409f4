------------------------------ MODULE ApiRoutes ------------------------------
(***************************************************************************)
(* The routes of the API, controller by controller, in the order of their  *)
(* declaration: verb, path below the global prefix, whether @Public, the   *)
(* roles @Roles demands, the permission that the service asks for once     *)
(* more, and the type that the handler returns.  Id is a parameter of a    *)
(* path; Nest gives a request to the first route that matches it.          *)
(***************************************************************************)
EXTENDS Sequences, Integers

\* A parameter in the path of a route, and any identifier in the path of a request.
Id == "{id}"

Admin == {"ADMIN"}
Support == {"ADMIN", "SUPPORT_AGENT"}
Moderators == {"ADMIN", "MODERATOR"}
AnyStaff == Support \cup Moderators

Route(verb, path, gives, open, roles, asks) ==
  [verb |-> verb, path |-> path, gives |-> gives, open |-> open, roles |-> roles, asks |-> asks]
\* @Public; for a signed-in member; for the roles of a @Roles.
Open(verb, path, gives) == Route(verb, path, gives, TRUE, {}, "nothing")
Own(verb, path, gives) == Route(verb, path, gives, FALSE, {}, "nothing")
Staff(verb, path, gives, roles, asks) == Route(verb, path, gives, FALSE, roles, asks)

\* Public settings.
ConfigurationRoutes == <<
  Open("GET", <<"config", "theme">>, "PublicThemeConfig"),
  Open("GET", <<"config", "flags">>, "PublicFlagsConfig"),
  Open("GET", <<"config", "messaging">>, "MessagingPolicyView"),
  Open("GET", <<"config", "reports">>, "ReportsPolicyView") >>
\* Theme and flags.
AdminConfigRoutes == <<
  Staff("GET", <<"admin", "theme">>, "ThemeEditorView", Admin, "nothing"),
  Staff("POST", <<"admin", "theme", "draft">>, "ThemeEditorView", Admin, "nothing"),
  Staff("POST", <<"admin", "theme", "publish">>, "ThemeEditorView", Admin, "nothing"),
  Staff("GET", <<"admin", "flags">>, "FeatureFlagAdminView[]", Admin, "nothing"),
  Staff("PATCH", <<"admin", "flags", Id>>, "FeatureFlagAdminView", Admin, "nothing") >>
UserRoutes == <<
  Own("GET", <<"me">>, "CurrentMember") >>
AdminMemberRoutes == <<
  Staff("GET", <<"admin", "members">>, "AdminMemberView[]", Admin, "ADMIN"),
  Staff("GET", <<"admin", "members", Id>>, "AdminMemberDetail", Admin, "ADMIN"),
  Staff("POST", <<"admin", "members", Id, "suspend">>, "AdminMemberDetail", Admin, "ADMIN"),
  Staff("POST", <<"admin", "members", Id, "restore">>, "AdminMemberDetail", Admin, "ADMIN"),
  Staff("POST", <<"admin", "members", Id, "sessions", "revoke">>, "AdminMemberDetail", Admin, "ADMIN"),
  Staff("PATCH", <<"admin", "members", Id, "roles">>, "AdminMemberDetail", Admin, "ADMIN") >>
\* auth: ways to sign in, and the reset of a password.
SignInRoutes == <<
  Open("GET", <<"auth", "config">>, "AuthClientConfig"),
  Open("POST", <<"auth", "otp", "request">>, "OtpChallengeReceipt"),
  Open("POST", <<"auth", "otp", "verify">>, "AuthVerifyResult"),
  Open("POST", <<"auth", "otp", "resend">>, "OtpChallengeReceipt"),
  Open("POST", <<"auth", "password", "register">>, "AuthVerifyResult"),
  Open("POST", <<"auth", "password", "login">>, "AuthLoginResult"),
  Open("POST", <<"auth", "two-factor", "verify">>, "AuthVerifyResult"),
  Open("POST", <<"auth", "sso">>, "AuthVerifyResult"),
  Open("POST", <<"auth", "password", "forgot">>, "OtpChallengeReceipt"),
  Open("POST", <<"auth", "password", "reset", "verify">>, "PasswordResetTicket"),
  Open("POST", <<"auth", "password", "reset">>, "PasswordUpdateResult") >>
\* auth: the second step, the password and the sessions of a signed-in member.
AccountRoutes == <<
  Own("POST", <<"auth", "password">>, "PasswordUpdateResult"),
  Own("PUT", <<"auth", "two-factor">>, "CurrentMember"),
  Open("POST", <<"auth", "token", "refresh">>, "AuthTokens"),
  Own("POST", <<"auth", "logout">>, "LogoutResult"),
  Own("POST", <<"auth", "logout-all">>, "LogoutAllResult"),
  Own("GET", <<"auth", "sessions">>, "AuthSessionView[]") >>
MediaRoutes == <<
  Own("POST", <<"media", "presign">>, "MediaPresignResult"),
  Own("POST", <<"media", "complete">>, "MediaAssetView") >>
LocationRoutes == <<
  Own("GET", <<"me", "location">>, "OwnerLocation"),
  Own("PUT", <<"me", "location">>, "OwnerLocation"),
  Own("PATCH", <<"me", "location", "permission">>, "OwnerLocation") >>
ProfileRoutes == <<
  Open("GET", <<"current-modes">>, "CurrentModeView[]"),
  Own("GET", <<"me", "profile">>, "OwnerMemberProfile"),
  Own("PUT", <<"me", "profile">>, "OwnerMemberProfile"),
  Own("PATCH", <<"me", "profile">>, "OwnerMemberProfile"),
  Own("PUT", <<"me", "mode">>, "OwnerMemberProfile"),
  Open("GET", <<"members", Id>>, "PublicMemberProfile") >>
CategoryRoutes == <<
  Open("GET", <<"categories">>, "CategoryView[]"),
  Staff("GET", <<"admin", "categories">>, "CategoryView[]", Admin, "nothing"),
  Staff("POST", <<"admin", "categories">>, "CategoryView", Admin, "nothing"),
  Staff("PATCH", <<"admin", "categories", Id>>, "CategoryView", Admin, "nothing"),
  Staff("DELETE", <<"admin", "categories", Id>>, "CategoryView", Admin, "nothing") >>
ProfessionalRoutes == <<
  Own("GET", <<"me", "professional", "onboarding">>, "ProfessionalOnboarding"),
  Own("POST", <<"me", "professional", "onboarding", "start">>, "ProfessionalOnboarding"),
  Own("PUT", <<"me", "professional", "onboarding", "categories">>, "ProfessionalOnboarding"),
  Own("PUT", <<"me", "professional", "onboarding", "profile">>, "ProfessionalOnboarding"),
  Own("PUT", <<"me", "professional", "onboarding", "service-area">>, "ProfessionalOnboarding"),
  Own("POST", <<"me", "professional", "onboarding", "submit">>, "ProfessionalOnboarding"),
  Own("GET", <<"me", "professional">>, "OwnerProfessional"),
  Own("PATCH", <<"me", "professional">>, "OwnerProfessional"),
  Open("GET", <<"professionals", Id>>, "PublicProfessional"),
  Staff("GET", <<"admin", "professionals">>, "AdminProfessionalView[]", Admin, "ADMIN") >>
BusinessRoutes == <<
  Own("POST", <<"me", "businesses">>, "PublicBusiness"),
  Open("GET", <<"businesses", Id>>, "PublicBusiness"),
  Staff("GET", <<"admin", "businesses">>, "AdminBusinessView[]", Admin, "ADMIN") >>
DiscoveryRoutes == <<
  Open("GET", <<"discovery", "nearby">>, "DiscoveryResult"),
  Open("GET", <<"discovery", "search">>, "DiscoveryResult"),
  Open("GET", <<"discovery", "preview", Id, Id>>, "DiscoveryPreview"),
  Open("GET", <<"config", "discovery">>, "DiscoveryPolicyView"),
  Staff("GET", <<"admin", "discovery", "policy">>, "DiscoveryPolicyView", Admin, "nothing"),
  Staff("PATCH", <<"admin", "discovery", "policy">>, "DiscoveryPolicyView", Admin, "nothing"),
  Staff("GET", <<"admin", "discovery", "weights">>, "DiscoveryRankingWeightsView", Admin, "nothing"),
  Staff("PATCH", <<"admin", "discovery", "weights">>, "DiscoveryRankingWeightsView", Admin, "nothing") >>
VerificationRoutes == <<
  Own("POST", <<"verification", "identity">>, "IdentityVerificationRequest"),
  Own("GET", <<"verification", "identity">>, "IdentityVerificationRequest"),
  Staff("GET", <<"admin", "verification">>, "AdminVerificationRequest[]", Admin, "ADMIN"),
  Staff("POST", <<"admin", "verification", Id, "decide">>, "AdminVerificationRequest", Admin, "ADMIN") >>
ConnectionRoutes == <<
  Own("GET", <<"connections">>, "ConnectionView[]"),
  Own("GET", <<"connections", "with", Id>>, "ConnectionLookup"),
  Own("POST", <<"connections">>, "ConnectionView"),
  Own("POST", <<"connections", Id, "accept">>, "ConnectionView"),
  Own("POST", <<"connections", Id, "reject">>, "ConnectionView"),
  Own("POST", <<"connections", Id, "cancel">>, "ConnectionView") >>
ReportRoutes == <<
  Own("GET", <<"blocks">>, "BlockView[]"),
  Own("POST", <<"blocks">>, "BlockView"),
  Own("DELETE", <<"blocks", Id>>, "removed"),
  Own("POST", <<"reports">>, "ReportView"),
  Staff("GET", <<"admin", "reports">>, "AdminReportView[]", Moderators, "admin:moderate"),
  Staff("POST", <<"admin", "reports", Id, "moderate">>, "AdminReportView", Moderators, "admin:moderate") >>
NotificationRoutes == <<
  Own("GET", <<"notifications">>, "NotificationView[]"),
  Own("GET", <<"notifications", "unread-count">>, "UnreadCountView"),
  Own("POST", <<"notifications", "read-all">>, "updated"),
  Own("POST", <<"notifications", Id, "read">>, "NotificationView"),
  Staff("GET", <<"admin", "notification-templates">>, "NotificationTemplateView[]", Admin, "ADMIN"),
  Staff("PATCH", <<"admin", "notification-templates", Id>>, "NotificationTemplateView", Admin, "ADMIN") >>
MessagingRoutes == <<
  Own("GET", <<"conversations">>, "ConversationView[]"),
  Own("GET", <<"conversations", Id>>, "ConversationView"),
  Own("GET", <<"conversations", Id, "messages">>, "MessagePage"),
  Own("POST", <<"conversations", Id, "messages">>, "MessageView"),
  Own("POST", <<"conversations", Id, "read">>, "updated") >>
MemberSupportRoutes == <<
  Own("GET", <<"support", "categories">>, "SupportCategoryView[]"),
  Own("POST", <<"support", "tickets">>, "SupportTicketDetail"),
  Own("GET", <<"support", "tickets">>, "SupportTicketView[]"),
  Own("GET", <<"support", "tickets", Id>>, "SupportTicketDetail"),
  Own("POST", <<"support", "tickets", Id, "messages">>, "SupportMessageView") >>
StaffSupportRoutes == <<
  Staff("GET", <<"admin", "support", "categories">>, "SupportCategoryView[]", Admin, "nothing"),
  Staff("POST", <<"admin", "support", "categories">>, "SupportCategoryView", Admin, "ADMIN"),
  Staff("GET", <<"admin", "support", "tickets">>, "SupportTicketView[]", Support, "admin:support"),
  Staff("POST", <<"admin", "support", "tickets", Id, "assign">>, "SupportTicketView", Support, "admin:support"),
  Staff("POST", <<"admin", "support", "tickets", Id, "notes">>, "SupportNoteView", Support, "admin:support"),
  Staff("POST", <<"admin", "support", "tickets", Id, "escalate">>, "SupportEscalationView", Support, "admin:support"),
  Staff("PATCH", <<"admin", "support", "tickets", Id>>, "SupportTicketView", Support, "admin:support") >>
OpsRoutes == <<
  Staff("GET", <<"admin", "ops", "summary">>, "OpsSummaryView", AnyStaff, "admin:read"),
  Staff("GET", <<"admin", "staff">>, "StaffMemberView[]", Support, "admin:read") >>
ServiceRoutes == <<
  Own("GET", <<"me", "services">>, "ServiceOfferingView[]"),
  Own("POST", <<"me", "services">>, "ServiceOfferingView"),
  Own("DELETE", <<"me", "services", Id>>, "ok"),
  Open("GET", <<"professionals", Id, "services">>, "ServiceOfferingView[]") >>
ReviewRoutes == <<
  Open("GET", <<"reviews">>, "ReviewView[]"),
  Open("GET", <<"reviews", "aggregate">>, "ReviewAggregateView"),
  Own("POST", <<"reviews">>, "ReviewView") >>
\* stories/composer and stories/audio come before stories/:memberId.
MemberStoryRoutes == <<
  Own("POST", <<"me", "stories">>, "StoryView"),
  Own("GET", <<"me", "stories">>, "StoryView[]"),
  Own("POST", <<"me", "live">>, "LiveSessionView"),
  Own("GET", <<"me", "live">>, "LivePresenceView"),
  Own("POST", <<"me", "live", "end">>, "LiveSessionView"),
  Own("GET", <<"stories", "composer">>, "StoryComposerConfig"),
  Own("GET", <<"stories", "audio">>, "AudioTrackView[]"),
  Own("GET", <<"stories", Id, "live">>, "LivePresenceView"),
  Own("GET", <<"stories", Id>>, "StoryView[]") >>
StaffStoryRoutes == <<
  Staff("GET", <<"admin", "stories">>, "StoryView[]", Moderators, "admin:moderate"),
  Staff("POST", <<"admin", "stories", Id, "hide">>, "StoryView", Moderators, "admin:moderate"),
  Staff("GET", <<"admin", "live">>, "LiveSessionView[]", Moderators, "admin:moderate"),
  Staff("POST", <<"admin", "live", Id, "end">>, "LiveSessionView", Moderators, "admin:moderate"),
  Staff("GET", <<"admin", "stories", "audio">>, "AudioTrackView[]", Moderators, "admin:moderate"),
  Staff("POST", <<"admin", "stories", "audio">>, "AudioTrackView", Moderators, "admin:moderate"),
  Staff("PATCH", <<"admin", "stories", "audio", Id>>, "AudioTrackView", Moderators, "admin:moderate") >>
HealthRoutes == <<
  Open("GET", <<"health">>, "HealthData"),
  Open("GET", <<"health", "ready">>, "HealthData"),
  Open("GET", <<"health", "live">>, "HealthData") >>
AuditRoutes == <<
  Staff("GET", <<"admin", "audit">>, "AuditLogView[]", Admin, "ADMIN") >>

\* The modules in the order in which AppModule imports them.
Routes ==
  ConfigurationRoutes \o AdminConfigRoutes \o AuditRoutes \o UserRoutes
    \o AdminMemberRoutes \o SignInRoutes \o AccountRoutes \o MediaRoutes
    \o LocationRoutes \o ProfileRoutes \o CategoryRoutes \o ProfessionalRoutes
    \o BusinessRoutes \o DiscoveryRoutes \o VerificationRoutes \o ConnectionRoutes
    \o ReportRoutes \o NotificationRoutes \o MessagingRoutes \o MemberSupportRoutes
    \o StaffSupportRoutes \o OpsRoutes \o ServiceRoutes \o ReviewRoutes
    \o MemberStoryRoutes \o StaffStoryRoutes \o HealthRoutes
==============================================================================
