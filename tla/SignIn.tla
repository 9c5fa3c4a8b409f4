------------------------------- MODULE SignIn -------------------------------
(***************************************************************************)
(* The pages that sign in: the phone's LoginScreen, and the web's sign-in, *)
(* registration and forgotten-password forms and the staff form.  A press  *)
(* locks the page while feedback says "loading", but not the tabs and the  *)
(* links, which also set the feedback back: a page may be elsewhere, and   *)
(* may ask again, when an answer comes.                                    *)
(***************************************************************************)
EXTENDS Handlers

CONSTANTS
  Accounts,               \* whom the fields may name
  Nobody                  \* no account
ASSUME SignInAssumption == Nobody \notin Accounts /\ Accounts # {}

VARIABLES
  surface,                \* which page
  stage, method,          \* Stage or Step, and Method
  typed,                  \* the fields "email" and "identifier"
  challenge,              \* the receipt of the challenge: its purpose and whose it is
  secondFactor,           \* the same, of the web's second step; the staff form's only one
  ticket,                 \* whose reset ticket the page holds
  loading,                \* feedback.status = "loading"
  signCalls,              \* Slots -> the call: its kind, its account, whether its code fits
  session,                \* whose tokens setSession stored
  pressed,                \* history: the account of the last press
  strayed                 \* history: the member went elsewhere while a call was out
signVars == <<surface, stage, method, typed, challenge, secondFactor, ticket, loading,
              signCalls, session, pressed, strayed>>

NoCode == [for |-> "NONE", of |-> Nobody]
Receipt(purpose, who) == [for |-> purpose, of |-> who]
SignIdle == [kind |-> "none", of |-> Nobody, fits |-> TRUE]
Opening == [phone |-> "signIn", web |-> "signIn", staff |-> "signIn",
            forgot |-> "forgotSend", register |-> "register"]
Left == stage = "left"
Out == {s \in Slots : signCalls[s] # SignIdle}
\* What the member is asked for: the web and the staff form show the second step
\* while they hold its challenge, the phone by its stage.
AtSecondStep ==
  IF surface = "phone" THEN stage = "twoFactor" /\ challenge # NoCode
  ELSE stage = "signIn" /\ secondFactor # NoCode
AtSignIn(m) == stage = "signIn" /\ ~AtSecondStep /\ method = m

SignInit ==
  /\ surface \in DOMAIN Opening
  /\ stage = Opening[surface] /\ method = "password"
  /\ typed = [f \in {"email", "identifier"} |-> CHOOSE who \in Accounts : TRUE]
  /\ challenge = NoCode /\ secondFactor = NoCode /\ ticket = Nobody
  /\ loading = FALSE /\ signCalls = [s \in Slots |-> SignIdle]
  /\ session = Nobody /\ pressed = Nobody /\ strayed = FALSE

Goes == strayed' = (strayed \/ Out # {})
Unlock == loading' = FALSE

Press(s, kind, who, fits) ==
  /\ ~loading /\ loading' = TRUE
  /\ signCalls[s] = SignIdle
  /\ signCalls' = [signCalls EXCEPT ![s] = [kind |-> kind, of |-> who, fits |-> fits]]
  /\ pressed' = who
  /\ UNCHANGED <<surface, stage, method, typed, challenge, ticket, session, strayed>>

\* submitPassword, submitCredentials.
SubmitPassword(s) ==
  /\ AtSignIn("password")
  /\ Press(s, "password", typed["email"], TRUE) /\ UNCHANGED secondFactor
\* sendLoginCode and sendCode, the first time and again.
SendCode(s) ==
  /\ AtSignIn("code")
  /\ Press(s, "send", typed["identifier"], TRUE) /\ UNCHANGED secondFactor
\* verifyLoginCode and submitCode: the code of the challenge on the page, for what
\* stands in the field.
VerifyCode(s) ==
  /\ AtSignIn("code") /\ challenge # NoCode
  /\ Press(s, "verify", typed["identifier"], challenge = Receipt("LOGIN", typed["identifier"]))
  /\ UNCHANGED secondFactor
VerifySecondFactor(s) ==
  LET held == IF surface = "phone" THEN challenge ELSE secondFactor
  IN AtSecondStep /\ Press(s, "second", held.of, held.for = "TWO_FACTOR") /\ UNCHANGED secondFactor
\* The web restarts the step with the password it still has.
ResendSecondFactor(s) ==
  /\ surface = "web" /\ AtSecondStep /\ secondFactor' = NoCode
  /\ Press(s, "password", typed["email"], TRUE)
SendResetCode(s) ==
  /\ stage = "forgotSend" \/ (surface = "forgot" /\ stage = "forgotVerify")
  /\ Press(s, "sendReset", typed["identifier"], TRUE) /\ UNCHANGED secondFactor
VerifyResetCode(s) ==
  /\ stage = "forgotVerify" /\ challenge # NoCode
  /\ Press(s, "verifyReset", challenge.of, challenge.for = "PASSWORD_RESET")
  /\ UNCHANGED secondFactor
SubmitNewPassword(s) ==
  /\ stage = "forgotReset" /\ ticket # Nobody
  /\ Press(s, "newPassword", ticket, TRUE) /\ UNCHANGED secondFactor
Register(s) ==
  /\ stage = "register"
  /\ Press(s, "register", typed["email"], TRUE) /\ UNCHANGED secondFactor
\* SsoBlock: whoever the provider names.
StartSso(s, who) ==
  /\ \/ surface = "web" /\ stage = "signIn" /\ ~AtSecondStep
     \/ stage = "register"
  /\ Press(s, "sso", who, TRUE) /\ UNCHANGED secondFactor

Arrives(s, kinds) ==
  /\ ~Left /\ signCalls[s].kind \in kinds
  /\ signCalls' = [signCalls EXCEPT ![s] = SignIdle] /\ Unlock
\* finish, complete: the pages of a browser go on to nextPath.
SignedIn(s) ==
  /\ Arrives(s, {"password", "verify", "second", "register", "sso"})
  /\ signCalls[s].fits
  /\ session' = signCalls[s].of
  /\ stage' = IF surface = "phone" THEN stage ELSE "left"
  /\ UNCHANGED <<surface, method, typed, challenge, secondFactor, ticket, pressed, strayed>>
AskSecondFactor(s) ==
  /\ Arrives(s, {"password"})
  /\ LET receipt == Receipt("TWO_FACTOR", signCalls[s].of)
     IN IF surface = "phone"
        THEN challenge' = receipt /\ stage' = "twoFactor" /\ UNCHANGED secondFactor
        ELSE secondFactor' = receipt /\ UNCHANGED <<challenge, stage>>
  /\ UNCHANGED <<surface, method, typed, ticket, session, pressed, strayed>>
CodeSent(s) ==
  /\ Arrives(s, {"send"})
  /\ challenge' = Receipt("LOGIN", signCalls[s].of)
  /\ UNCHANGED <<surface, stage, method, typed, secondFactor, ticket, session, pressed, strayed>>
ResetCodeSent(s) ==
  /\ Arrives(s, {"sendReset"})
  /\ challenge' = Receipt("PASSWORD_RESET", signCalls[s].of)
  /\ stage' = "forgotVerify"
  /\ UNCHANGED <<surface, method, typed, secondFactor, ticket, session, pressed, strayed>>
TakeTicket(s) ==
  /\ Arrives(s, {"verifyReset"}) /\ signCalls[s].fits
  /\ ticket' = signCalls[s].of
  /\ stage' = "forgotReset"
  /\ UNCHANGED <<surface, method, typed, challenge, secondFactor, session, pressed, strayed>>
PasswordSet(s) ==
  /\ Arrives(s, {"newPassword"})
  /\ stage' = "done"
  /\ UNCHANGED <<surface, method, typed, challenge, secondFactor, ticket, session, pressed, strayed>>
\* Mutant: a code that could not be sent drops the one the page had.
FailDropping(s) ==
  /\ Arrives(s, {signCalls[s].kind} \ {"none"})
  /\ challenge' = IF signCalls[s].kind = "send" THEN NoCode ELSE challenge
  /\ UNCHANGED <<surface, stage, method, typed, secondFactor, ticket, session, pressed, strayed>>

\* Refused, or no answer: the feedback says so, and the typed code is cleared.
FailSignCall(s) ==
  /\ Arrives(s, {signCalls[s].kind} \ {"none"})
  /\ UNCHANGED <<surface, stage, method, typed, challenge, secondFactor, ticket, session,
                 pressed, strayed>>

\* The tabs.  Only the phone forgets the challenge.
ChooseMethod(m) ==
  /\ surface \in {"phone", "web"} /\ stage = "signIn" /\ ~AtSecondStep
  /\ method' = m
  /\ challenge' = IF surface = "phone" THEN NoCode ELSE challenge
  /\ Unlock /\ Goes
  /\ UNCHANGED <<surface, stage, typed, secondFactor, ticket, signCalls, session, pressed>>
\* The phone's "Forgot password?".
ForgetPassword ==
  /\ surface = "phone" /\ AtSignIn("password")
  /\ stage' = "forgotSend" /\ Unlock /\ Goes
  /\ UNCHANGED <<surface, method, typed, challenge, secondFactor, ticket, signCalls, session, pressed>>
\* "Use a different account", "Back to sign in", "Start over".
Reset ==
  /\ \/ surface = "phone" /\ (AtSecondStep \/ stage \in {"forgotSend", "done"})
     \/ surface \in {"web", "staff"} /\ AtSecondStep
  /\ IF surface = "phone"
     THEN stage' = "signIn" /\ challenge' = NoCode /\ ticket' = Nobody /\ UNCHANGED secondFactor
     ELSE secondFactor' = NoCode /\ UNCHANGED <<stage, challenge, ticket>>
  /\ Unlock /\ Goes
  /\ UNCHANGED <<surface, method, typed, signCalls, session, pressed>>

TypeEmail(who) ==
  /\ AtSignIn("password") \/ stage = "register"
  /\ ~loading /\ typed' = [typed EXCEPT !["email"] = who]
  /\ UNCHANGED <<surface, stage, method, challenge, secondFactor, ticket, loading, signCalls,
                 session, pressed, strayed>>
\* Mutant: the challenge outlives the name it was asked for.
TypeKeepingCode(who) ==
  /\ AtSignIn("code") \/ stage = "forgotSend"
  /\ ~loading /\ typed' = [typed EXCEPT !["identifier"] = who]
  /\ UNCHANGED <<surface, stage, method, challenge, secondFactor, ticket, loading, signCalls,
                 session, pressed, strayed>>

\* The field of the one-time code drops the challenge of the name it had.
TypeIdentifier(who) ==
  /\ AtSignIn("code") \/ stage = "forgotSend"
  /\ ~loading /\ typed' = [typed EXCEPT !["identifier"] = who]
  /\ challenge' = IF stage = "signIn" THEN NoCode ELSE challenge
  /\ UNCHANGED <<surface, stage, method, secondFactor, ticket, loading, signCalls, session,
                 pressed, strayed>>

SignNext ==
  \/ \E s \in Slots :
       \/ SubmitPassword(s) \/ SendCode(s) \/ VerifyCode(s) \/ VerifySecondFactor(s)
       \/ ResendSecondFactor(s) \/ SendResetCode(s) \/ VerifyResetCode(s)
       \/ SubmitNewPassword(s) \/ Register(s) \/ \E who \in Accounts : StartSso(s, who)
       \/ SignedIn(s) \/ AskSecondFactor(s) \/ CodeSent(s) \/ ResetCodeSent(s)
       \/ TakeTicket(s) \/ PasswordSet(s) \/ FailSignCall(s)
  \/ \E m \in {"password", "code"} : ChooseMethod(m)
  \/ ForgetPassword \/ Reset
  \/ \E who \in Accounts : TypeEmail(who) \/ TypeIdentifier(who)
SignSpec == SignInit /\ [][SignNext]_signVars

-----------------------------------------------------------------------------
Codes == [for: {"NONE", "LOGIN", "TWO_FACTOR", "PASSWORD_RESET"}, of: Accounts \cup {Nobody}]

(* Every variable keeps its type. *)
SignTypeOK ==
  /\ surface \in DOMAIN Opening
  /\ stage \in {"signIn", "twoFactor", "forgotSend", "forgotVerify", "forgotReset", "done",
                "register", "left"}
  /\ method \in {"password", "code"} /\ typed \in [{"email", "identifier"} -> Accounts]
  /\ challenge \in Codes /\ secondFactor \in Codes
  /\ {ticket, session, pressed} \subseteq Accounts \cup {Nobody}
  /\ loading \in BOOLEAN /\ strayed \in BOOLEAN
  /\ signCalls \in [Slots -> [kind: {"none", "password", "send", "verify", "second", "sendReset",
                                     "verifyReset", "newPassword", "register", "sso"},
                              of: Accounts \cup {Nobody}, fits: BOOLEAN]]

(* However late an answer moves the page on, it has what the stage it moves to *)
(* shows: a second step and a reset code have their challenge, a new password  *)
(* its ticket.  The phone renders nothing at all without them                  *)
(* (auth.tsx:488, 545, 576), and the forms have no other way on.               *)
NeverBlank ==
  /\ stage \in {"twoFactor", "forgotVerify"} => challenge # NoCode
  /\ stage = "forgotReset" => ticket # Nobody

(* Unless the member went elsewhere while a call was out, a page asks one      *)
(* thing at a time, checks a code against the account and the purpose it was   *)
(* sent for, and signs in the account of the last press                        *)
(* (auth.tsx:247-268, sign-in-form.tsx:117-140).                               *)
CodesFit ==
  ~strayed =>
    /\ Cardinality(Out) <= 1
    /\ \A s \in Out : signCalls[s].fits
    /\ session # Nobody /\ surface # "phone" => session = pressed

(* The stages of signing in have what they show and check what was asked       *)
(* (auth.tsx:202-338, sign-in-form.tsx:67-148).                                *)
StagesFit == NeverBlank /\ CodesFit
=============================================================================
