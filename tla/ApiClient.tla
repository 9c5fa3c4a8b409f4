------------------------------ MODULE ApiClient ------------------------------
(***************************************************************************)
(* The methods of HasutApiClient, which the web, admin and mobile          *)
(* applications share: the request each one makes (verb and path below the *)
(* prefix, Id for an argument) and the type whose schema it parses the     *)
(* answer with.  Queries and bodies are left out.                          *)
(***************************************************************************)
EXTENDS ApiRoutes

Call(name, verb, path, reads) ==
  [name |-> name, verb |-> verb, path |-> path, reads |-> reads]

SystemCalls == {
  Call("health live", "GET", <<"health", "live">>, "HealthData"),
  Call("health ready", "GET", <<"health", "ready">>, "HealthData"),
  Call("authConfig", "GET", <<"auth", "config">>, "AuthClientConfig") }
SignInCalls == {
  Call("requestOtp", "POST", <<"auth", "otp", "request">>, "OtpChallengeReceipt"),
  Call("verifyOtp", "POST", <<"auth", "otp", "verify">>, "AuthVerifyResult"),
  Call("resendOtp", "POST", <<"auth", "otp", "resend">>, "OtpChallengeReceipt"),
  Call("register", "POST", <<"auth", "password", "register">>, "AuthVerifyResult"),
  Call("loginWithPassword", "POST", <<"auth", "password", "login">>, "AuthLoginResult"),
  Call("verifyTwoFactor", "POST", <<"auth", "two-factor", "verify">>, "AuthVerifyResult"),
  Call("loginWithSso", "POST", <<"auth", "sso">>, "AuthVerifyResult"),
  Call("forgotPassword", "POST", <<"auth", "password", "forgot">>, "OtpChallengeReceipt"),
  Call("verifyPasswordReset", "POST", <<"auth", "password", "reset", "verify">>, "PasswordResetTicket"),
  Call("resetPassword", "POST", <<"auth", "password", "reset">>, "PasswordUpdateResult") }
AccountCalls == {
  Call("changePassword", "POST", <<"auth", "password">>, "PasswordUpdateResult"),
  Call("setTwoFactor", "PUT", <<"auth", "two-factor">>, "CurrentMember"),
  Call("refresh", "POST", <<"auth", "token", "refresh">>, "AuthTokens"),
  Call("logout", "POST", <<"auth", "logout">>, "LogoutResult"),
  Call("logoutAll", "POST", <<"auth", "logout-all">>, "LogoutAllResult"),
  Call("sessions", "GET", <<"auth", "sessions">>, "AuthSessionView[]"),
  Call("me", "GET", <<"me">>, "CurrentMember"),
  Call("theme", "GET", <<"config", "theme">>, "PublicThemeConfig"),
  Call("flags", "GET", <<"config", "flags">>, "PublicFlagsConfig") }
ProfileCalls == {
  Call("getMyProfile", "GET", <<"me", "profile">>, "OwnerMemberProfile"),
  Call("putMyProfile", "PUT", <<"me", "profile">>, "OwnerMemberProfile"),
  Call("patchMyProfile", "PATCH", <<"me", "profile">>, "OwnerMemberProfile"),
  Call("putMyMode", "PUT", <<"me", "mode">>, "OwnerMemberProfile"),
  Call("getMyLocation", "GET", <<"me", "location">>, "OwnerLocation"),
  Call("putMyLocation", "PUT", <<"me", "location">>, "OwnerLocation"),
  Call("patchLocationPermission", "PATCH", <<"me", "location", "permission">>, "OwnerLocation"),
  Call("getMember", "GET", <<"members", Id>>, "PublicMemberProfile"),
  Call("listCurrentModes", "GET", <<"current-modes">>, "CurrentModeView[]") }
MediaCalls == {
  Call("presignMedia", "POST", <<"media", "presign">>, "MediaPresignResult"),
  Call("completeMedia", "POST", <<"media", "complete">>, "MediaAssetView") }
CategoryCalls == {
  Call("listCategories", "GET", <<"categories">>, "CategoryView[]"),
  Call("listAdminCategories", "GET", <<"admin", "categories">>, "CategoryView[]"),
  Call("createCategory", "POST", <<"admin", "categories">>, "CategoryView"),
  Call("patchCategory", "PATCH", <<"admin", "categories", Id>>, "CategoryView"),
  Call("deleteCategory", "DELETE", <<"admin", "categories", Id>>, "CategoryView") }
ProfessionalCalls == {
  Call("getProfessionalOnboarding", "GET", <<"me", "professional", "onboarding">>, "ProfessionalOnboarding"),
  Call("startProfessionalOnboarding", "POST", <<"me", "professional", "onboarding", "start">>, "ProfessionalOnboarding"),
  Call("saveOnboardingCategories", "PUT", <<"me", "professional", "onboarding", "categories">>, "ProfessionalOnboarding"),
  Call("saveOnboardingProfile", "PUT", <<"me", "professional", "onboarding", "profile">>, "ProfessionalOnboarding"),
  Call("saveOnboardingServiceArea", "PUT", <<"me", "professional", "onboarding", "service-area">>, "ProfessionalOnboarding"),
  Call("submitProfessionalOnboarding", "POST", <<"me", "professional", "onboarding", "submit">>, "ProfessionalOnboarding"),
  Call("getMyProfessional", "GET", <<"me", "professional">>, "OwnerProfessional"),
  Call("patchMyProfessional", "PATCH", <<"me", "professional">>, "OwnerProfessional"),
  Call("getProfessional", "GET", <<"professionals", Id>>, "PublicProfessional"),
  Call("requestIdentityVerification", "POST", <<"verification", "identity">>, "IdentityVerificationRequest"),
  Call("getIdentityVerification", "GET", <<"verification", "identity">>, "IdentityVerificationRequest") }
DiscoveryCalls == {
  Call("getDiscoveryPolicy", "GET", <<"config", "discovery">>, "DiscoveryPolicyView"),
  Call("nearby", "GET", <<"discovery", "nearby">>, "DiscoveryResult"),
  Call("searchNearby", "GET", <<"discovery", "search">>, "DiscoveryResult"),
  Call("getDiscoveryPreview", "GET", <<"discovery", "preview", Id, Id>>, "DiscoveryPreview"),
  Call("getBusiness", "GET", <<"businesses", Id>>, "PublicBusiness"),
  Call("createBusiness", "POST", <<"me", "businesses">>, "PublicBusiness"),
  Call("getAdminDiscoveryPolicy", "GET", <<"admin", "discovery", "policy">>, "DiscoveryPolicyView"),
  Call("patchAdminDiscoveryPolicy", "PATCH", <<"admin", "discovery", "policy">>, "DiscoveryPolicyView"),
  Call("getAdminDiscoveryWeights", "GET", <<"admin", "discovery", "weights">>, "DiscoveryRankingWeightsView"),
  Call("patchAdminDiscoveryWeights", "PATCH", <<"admin", "discovery", "weights">>, "DiscoveryRankingWeightsView") }
SocialCalls == {
  Call("getMessagingPolicy", "GET", <<"config", "messaging">>, "MessagingPolicyView"),
  Call("getReportsPolicy", "GET", <<"config", "reports">>, "ReportsPolicyView"),
  Call("listConnections", "GET", <<"connections">>, "ConnectionView[]"),
  Call("getConnectionWith", "GET", <<"connections", "with", Id>>, "ConnectionLookup"),
  Call("requestConnection", "POST", <<"connections">>, "ConnectionView"),
  Call("acceptConnection", "POST", <<"connections", Id, "accept">>, "ConnectionView"),
  Call("rejectConnection", "POST", <<"connections", Id, "reject">>, "ConnectionView"),
  Call("cancelConnection", "POST", <<"connections", Id, "cancel">>, "ConnectionView"),
  Call("listConversations", "GET", <<"conversations">>, "ConversationView[]"),
  Call("getConversation", "GET", <<"conversations", Id>>, "ConversationView"),
  Call("listMessages", "GET", <<"conversations", Id, "messages">>, "MessagePage"),
  Call("sendMessage", "POST", <<"conversations", Id, "messages">>, "MessageView"),
  Call("markMessagesRead", "POST", <<"conversations", Id, "read">>, "updated"),
  Call("listBlocks", "GET", <<"blocks">>, "BlockView[]"),
  Call("blockMember", "POST", <<"blocks">>, "BlockView"),
  Call("unblockMember", "DELETE", <<"blocks", Id>>, "removed") }
NoticeCalls == {
  Call("createReport", "POST", <<"reports">>, "ReportView"),
  Call("listNotifications", "GET", <<"notifications">>, "NotificationView[]"),
  Call("getUnreadCount", "GET", <<"notifications", "unread-count">>, "UnreadCountView"),
  Call("markNotificationRead", "POST", <<"notifications", Id, "read">>, "NotificationView"),
  Call("markAllNotificationsRead", "POST", <<"notifications", "read-all">>, "updated") }
QueueCalls == {
  Call("listAdminVerification", "GET", <<"admin", "verification">>, "AdminVerificationRequest[]"),
  Call("decideVerification", "POST", <<"admin", "verification", Id, "decide">>, "AdminVerificationRequest"),
  Call("listAdminReports", "GET", <<"admin", "reports">>, "AdminReportView[]"),
  Call("moderateReport", "POST", <<"admin", "reports", Id, "moderate">>, "AdminReportView"),
  Call("listNotificationTemplates", "GET", <<"admin", "notification-templates">>, "NotificationTemplateView[]"),
  Call("updateNotificationTemplate", "PATCH", <<"admin", "notification-templates", Id>>, "NotificationTemplateView"),
  Call("getOpsSummary", "GET", <<"admin", "ops", "summary">>, "OpsSummaryView"),
  Call("listStaff", "GET", <<"admin", "staff">>, "StaffMemberView[]") }
SupportCalls == {
  Call("listSupportCategories", "GET", <<"support", "categories">>, "SupportCategoryView[]"),
  Call("createSupportTicket", "POST", <<"support", "tickets">>, "SupportTicketDetail"),
  Call("listSupportTickets", "GET", <<"support", "tickets">>, "SupportTicketView[]"),
  Call("getSupportTicket", "GET", <<"support", "tickets", Id>>, "SupportTicketDetail"),
  Call("replySupportTicket", "POST", <<"support", "tickets", Id, "messages">>, "SupportMessageView"),
  Call("listAdminSupportTickets", "GET", <<"admin", "support", "tickets">>, "SupportTicketView[]"),
  Call("assignSupportTicket", "POST", <<"admin", "support", "tickets", Id, "assign">>, "SupportTicketView"),
  Call("addSupportNote", "POST", <<"admin", "support", "tickets", Id, "notes">>, "SupportNoteView"),
  Call("escalateSupportTicket", "POST", <<"admin", "support", "tickets", Id, "escalate">>, "SupportEscalationView"),
  Call("patchSupportTicket", "PATCH", <<"admin", "support", "tickets", Id>>, "SupportTicketView") }
MemberAdminCalls == {
  Call("searchMembers", "GET", <<"admin", "members">>, "AdminMemberView[]"),
  Call("getAdminMember", "GET", <<"admin", "members", Id>>, "AdminMemberDetail"),
  Call("suspendMember", "POST", <<"admin", "members", Id, "suspend">>, "AdminMemberDetail"),
  Call("restoreMember", "POST", <<"admin", "members", Id, "restore">>, "AdminMemberDetail"),
  Call("revokeMemberSessions", "POST", <<"admin", "members", Id, "sessions", "revoke">>, "AdminMemberDetail"),
  Call("setMemberRoles", "PATCH", <<"admin", "members", Id, "roles">>, "AdminMemberDetail") }
OperatorCalls == {
  Call("listAdminProfessionals", "GET", <<"admin", "professionals">>, "AdminProfessionalView[]"),
  Call("listAdminBusinesses", "GET", <<"admin", "businesses">>, "AdminBusinessView[]"),
  Call("listAudit", "GET", <<"admin", "audit">>, "AuditLogView[]"),
  Call("getThemeEditor", "GET", <<"admin", "theme">>, "ThemeEditorView"),
  Call("saveThemeDraft", "POST", <<"admin", "theme", "draft">>, "ThemeEditorView"),
  Call("publishTheme", "POST", <<"admin", "theme", "publish">>, "ThemeEditorView"),
  Call("listAdminFlags", "GET", <<"admin", "flags">>, "FeatureFlagAdminView[]"),
  Call("updateAdminFlag", "PATCH", <<"admin", "flags", Id>>, "FeatureFlagAdminView") }
ServiceCalls == {
  Call("listMyServices", "GET", <<"me", "services">>, "ServiceOfferingView[]"),
  Call("createService", "POST", <<"me", "services">>, "ServiceOfferingView"),
  Call("listProfessionalServices", "GET", <<"professionals", Id, "services">>, "ServiceOfferingView[]"),
  Call("listReviews", "GET", <<"reviews">>, "ReviewView[]"),
  Call("createReview", "POST", <<"reviews">>, "ReviewView"),
  Call("getReviewAggregate", "GET", <<"reviews", "aggregate">>, "ReviewAggregateView") }
StoryCalls == {
  Call("createStory", "POST", <<"me", "stories">>, "StoryView"),
  Call("storyComposerConfig", "GET", <<"stories", "composer">>, "StoryComposerConfig"),
  Call("listAudioTracks", "GET", <<"stories", "audio">>, "AudioTrackView[]"),
  Call("listMyStories", "GET", <<"me", "stories">>, "StoryView[]"),
  Call("listMemberStories", "GET", <<"stories", Id>>, "StoryView[]"),
  Call("getMyLive", "GET", <<"me", "live">>, "LivePresenceView"),
  Call("getMemberLive", "GET", <<"stories", Id, "live">>, "LivePresenceView"),
  Call("startLive", "POST", <<"me", "live">>, "LiveSessionView"),
  Call("endLive", "POST", <<"me", "live", "end">>, "LiveSessionView") }
StoryQueueCalls == {
  Call("listAdminStories", "GET", <<"admin", "stories">>, "StoryView[]"),
  Call("hideStory", "POST", <<"admin", "stories", Id, "hide">>, "StoryView"),
  Call("listAdminLive", "GET", <<"admin", "live">>, "LiveSessionView[]"),
  Call("endAdminLive", "POST", <<"admin", "live", Id, "end">>, "LiveSessionView"),
  Call("listAdminAudioTracks", "GET", <<"admin", "stories", "audio">>, "AudioTrackView[]"),
  Call("createAudioTrack", "POST", <<"admin", "stories", "audio">>, "AudioTrackView"),
  Call("setAudioTrackActive", "PATCH", <<"admin", "stories", "audio", Id>>, "AudioTrackView") }

Methods ==
  SystemCalls \cup SignInCalls \cup AccountCalls \cup ProfileCalls \cup MediaCalls
    \cup CategoryCalls \cup ProfessionalCalls \cup DiscoveryCalls \cup SocialCalls \cup NoticeCalls
    \cup QueueCalls \cup SupportCalls \cup MemberAdminCalls \cup OperatorCalls \cup ServiceCalls
    \cup StoryCalls \cup StoryQueueCalls
==============================================================================
