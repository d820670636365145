----------------------------- MODULE MailProps -----------------------------
(***************************************************************************)
(* What a reconstructed session and its TLS verdict should say about the   *)
(* conversation that was captured.                                         *)
(***************************************************************************)
EXTENDS MailSession

-----------------------------------------------------------------------------
(* Facts of the conversation.                                              *)

AuthCommands(p) ==
  CASE p = "SMTP" -> {"AUTH"}
    [] p = "IMAP" -> {"LOGIN", "AUTHENTICATE"}
    [] p = "POP3" -> {"USER", "PASS", "AUTH"}

AuthInClear == \E c \in Commands : client[c].text \in AuthCommands(proto)
UpgradeAsked == \E c \in Commands : client[c].text \in Upgrade(proto)
UpgradeGranted == \E s \in DOMAIN server :
  /\ server[s].to > 0 /\ client[server[s].to].text \in Upgrade(proto)
  /\ server[s].line \in Granting(proto)

UpgradeRefused == \E s \in DOMAIN server : server[s].line \in Refusing(proto)

\* The parsers take any line of the client for a command, those of a message
\* too: what they say of its commands is right if no line of text looks like
\* one that they report.
TextIsNoCommand ==
  \A l \in BodyText : l.text \notin AuthCommands("SMTP") \cup Upgrade("SMTP")

\* The made-up clock puts the ClientHello after everything sent in the clear:
\* it does when a newline follows the hello, or when the lines are on average
\* longer than ten bytes, the length the clock takes a line to have.
HelloInPlace == hello # "tail" \/ Offset(client) > 10 * Len(client)

-----------------------------------------------------------------------------
(* Properties.                                                             *)

\* The made-up clock never shows an answer before the command it answers, as
\* long as no message text was sent: each command is answered by at least one
\* line and the greeting puts the server one line ahead (the half millisecond
\* in parse_*_streams).  Message lines are not answered one by one.
AnswersFollowCommands ==
  \A a, b \in DOMAIN events :
    (/\ events[a].dir = "S2C" /\ events[b].dir = "C2S"
     /\ events[b].line \in Commands
     /\ server[events[a].line].to = events[b].line
     /\ \A c \in 1 .. events[b].line : c \in Commands)
    => b < a

\* Authentication in the clear is reported, and nothing else is: the fact
\* authentication_before_tls is set exactly when credentials were captured
\* before TLS.  It may only be missed where the clock misplaces the hello.
ClearAuthReported ==
  stage \in {"analyze", "done"} =>
    /\ session.sec.authentication_before_tls => AuthInClear
    /\ HelloInPlace /\ AuthInClear => session.sec.authentication_before_tls

\* What a verdict claims of the conversation did happen: a success had a
\* request, the server's consent and a hello; an accepted request without a
\* handshake was made and never refused; an unused offer was not taken up; a
\* plaintext session had neither request nor hello; implicit TLS sent nothing in
\* the clear.
VerdictSound ==
  stage = "done" =>
    CASE result.status = "STARTTLS_SUCCESS" -> UpgradeGranted /\ hello # "none"
      [] result.status \in {"STARTTLS_AVAILABLE_NOT_USED", "PLAINTEXT_SESSION"} ->
           ~UpgradeAsked /\ hello = "none"
      [] result.status = "STARTTLS_ACCEPTED_NO_HANDSHAKE" ->
           UpgradeAsked /\ ~UpgradeRefused /\ hello = "none"
      [] result.status = "IMPLICIT_TLS" -> client = <<>> /\ hello # "none"
      [] OTHER -> TRUE

\* An upgrade that took place is recognised: granted, followed by the hello in
\* its place, after no refusal, on a server that greets with one line.
UpgradeRecognised ==
  (/\ stage = "done" /\ UpgradeGranted /\ hello # "none" /\ HelloInPlace
   /\ ~UpgradeRefused
   /\ \A s \in DOMAIN server \ {1} : server[s].to # 0
   /\ DOMAIN client = Commands)
  => result.status = "STARTTLS_SUCCESS"

\* A session that was closed stays closed.  The server's answers are late on
\* the made-up clock, so errors do arrive after QUIT.
ClosedStaysClosed == [][session.state = "CLOSED" => session'.state = "CLOSED"]_vars
=============================================================================
