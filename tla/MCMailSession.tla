--------------------------- MODULE MCMailSession ---------------------------
(***************************************************************************)
(* Small conversations for TLC.  Lengths are those of the shortest commands *)
(* and of common ones, line ends included.                                 *)
(***************************************************************************)
EXTENDS MailProps

Cmd(text, len) == [text |-> text, len |-> len]

MCProtocols == {"SMTP", "IMAP", "POP3"}

MCGreeting ==
  "SMTP" :> {<<"220">>, <<"220", "220 ready">>} @@
  "IMAP" :> {<<"* OK">>} @@
  "POP3" :> {<<"+OK">>}

MCSends ==
  "SMTP" :> {Cmd("EHLO", 8), Cmd("EHLO", 24), Cmd("STARTTLS", 10), Cmd("AUTH", 8),
             Cmd("MAIL", 17), Cmd("DATA", 6), Cmd("RSET", 6), Cmd("NOOP", 6), Cmd("QUIT", 6)} @@
  "IMAP" :> {Cmd("CAPABILITY", 14), Cmd("STARTTLS", 12), Cmd("LOGIN", 13),
             Cmd("SELECT", 16), Cmd("NOOP", 8), Cmd("LOGOUT", 10)} @@
  "POP3" :> {Cmd("CAPA", 6), Cmd("STLS", 6), Cmd("USER", 8), Cmd("USER", 14),
             Cmd("PASS", 8), Cmd("PASS", 18), Cmd("NOOP", 6), Cmd("QUIT", 6)}

SmtpAnswers ==
  "EHLO" :> {<<"250-", "250 STARTTLS", "250">>, <<"250-", "250 AUTH">>, <<"250">>} @@
  "STARTTLS" :> {<<"220 ready">>, <<"454">>, <<"other">>} @@
  "AUTH" :> {<<"235">>, <<"535">>, <<"454">>} @@
  "MAIL" :> {<<"250">>, <<"530">>} @@
  "DATA" :> {<<"354">>} @@ "." :> {<<"250">>} @@
  "RSET" :> {<<"250">>} @@ "NOOP" :> {<<"250">>, <<"421">>} @@ "QUIT" :> {<<"other">>}

ImapAnswers ==
  "CAPABILITY" :> {<<"* CAPABILITY STARTTLS", "OK">>, <<"* CAPABILITY", "OK LOGIN">>} @@
  "STARTTLS" :> {<<"OK TLS">>, <<"NO TLS">>} @@
  "LOGIN" :> {<<"OK LOGIN">>, <<"NO LOGIN">>, <<"NO">>} @@
  "SELECT" :> {<<"other", "OK">>, <<"NO">>} @@
  "NOOP" :> {<<"OK">>, <<"* BYE">>} @@ "LOGOUT" :> {<<"* BYE", "OK">>}

Pop3Answers ==
  "CAPA" :> {<<"+OK CAPA", "STLS", "other", ".">>, <<"-ERR">>} @@
  "STLS" :> {<<"+OK TLS">>, <<"-ERR TLS">>} @@
  "USER" :> {<<"+OK">>, <<"-ERR">>} @@
  "PASS" :> {<<"+OK">>, <<"-ERR AUTH">>, <<"-ERR">>} @@
  "NOOP" :> {<<"+OK">>, <<"-ERR">>} @@ "QUIT" :> {<<"+OK">>, <<"-ERR">>}

MCAnswer == "SMTP" :> SmtpAnswers @@ "IMAP" :> ImapAnswers @@ "POP3" :> Pop3Answers

\* A line of text may begin with a word that the parser takes for a command.
MCBodyText == {Cmd("text", 20), Cmd("QUIT", 20)}

\* What the theorems take from the message text.
ASSUME TextIsNoCommand
=============================================================================
