----------------------------- MODULE MailEvents -----------------------------
(***************************************************************************)
(* From the two byte streams of a mail conversation to one list of session *)
(* events (app/sessions/{smtp,imap,pop3}/events.py).                       *)
(*                                                                         *)
(* A stream is a sequence of lines.  A line is named by what the parsers'  *)
(* patterns see in it, "other" or any unlisted name being a line that none *)
(* of them matches; a line of the client also has a length in bytes.       *)
(* CAPABILITY_ITEM events, which only extend the list of capabilities that *)
(* is printed, are left out.                                               *)
(*                                                                         *)
(* The lines carry no time of their own: the parsers make one up, a        *)
(* millisecond per line, the client's lines half a millisecond later.  The *)
(* unit of time is a hundredth of a millisecond here.                      *)
(***************************************************************************)
EXTENDS Integers, Sequences, FiniteSets, SequencesExt

-----------------------------------------------------------------------------
(* The server's stream: a line has a set of events.  What a parser         *)
(* remembers when it looks at line i follows from the lines before i:      *)
(* greeted (is_first_220, greeting_seen) and listing, whether it is within *)
(* a list of capabilities (capability_block_active, in_capa_response).     *)

Greets(proto, line) ==
  CASE proto = "SMTP" -> line \in {"220", "220 ready"}
    [] proto = "IMAP" -> line = "* OK"
    [] proto = "POP3" -> line \in {"+OK", "+OK TLS", "+OK CAPA"}

Greeted(proto, lines, i) == \E j \in 1 .. i - 1 : Greets(proto, lines[j])

Opens(proto, lines, j) ==
  \/ proto = "SMTP" /\ lines[j] = "250-"
  \/ proto = "POP3" /\ lines[j] = "+OK CAPA" /\ Greeted(proto, lines, j)

Closes(proto, line) ==
  (proto = "SMTP" /\ line = "250") \/ (proto = "POP3" /\ line = ".")

Listing(proto, lines, i) ==
  \E j \in 1 .. i - 1 : Opens(proto, lines, j) /\ \A k \in j + 1 .. i - 1 : ~Closes(proto, lines[k])

Seen(proto, lines, i) ==
  [greeted |-> Greeted(proto, lines, i), listing |-> Listing(proto, lines, i)]

SmtpReply(line) ==
  CASE line = "250 STARTTLS" -> {"STARTTLS_ADVERTISED"}
    [] line = "354" -> {"DATA_ACCEPTED"}
    [] line = "235" -> {"AUTH_SUCCESS"}
    [] line = "454" -> {"STARTTLS_REJECTED"}
    [] line = "535" -> {"AUTH_FAILED"}
    [] line \in {"421", "530", "550"} -> {"SERVER_ERROR"}
    [] OTHER -> {}

\* A mutant: is_first_220 is never cleared.
SmtpServerLineSameGreeting(line, seen) ==
  CASE line \in {"220", "220 ready"} -> {"SMTP_GREETING"}
    [] line \in {"250", "250-"} -> IF seen.listing THEN {} ELSE {"CAPABILITY_RESPONSE"}
    [] OTHER -> SmtpReply(line)

\* "220 ready": a 220 whose text has "ready", "start tls" or "go ahead".
SmtpServerLine(line, seen) ==
  CASE line = "220 ready" /\ seen.greeted -> {"STARTTLS_ACCEPTED"}
    [] line = "220" \/ (line = "220 ready" /\ ~seen.greeted) -> {"SMTP_GREETING"}
    [] line \in {"250", "250-"} -> IF seen.listing THEN {} ELSE {"CAPABILITY_RESPONSE"}
    [] OTHER -> SmtpReply(line)

\* A tagged OK, NO or BAD is classified by a word found in its text.
ImapReply(line) ==
  CASE line = "* CAPABILITY" -> {"CAPABILITY_RESPONSE"}
    [] line = "* CAPABILITY STARTTLS" -> {"CAPABILITY_RESPONSE", "STARTTLS_ADVERTISED"}
    [] line = "* BYE" -> {"CONNECTION_LOST"}
    [] line = "OK TLS" -> {"STARTTLS_ACCEPTED"}
    [] line = "OK LOGIN" -> {"AUTH_SUCCESS"}
    [] line = "NO TLS" -> {"STARTTLS_REJECTED"}
    [] line = "NO LOGIN" -> {"AUTH_FAILED"}
    [] line = "NO" -> {"SERVER_ERROR"}
    [] OTHER -> {}

ImapServerLine(line, seen) ==
  IF line = "* OK" /\ ~seen.greeted THEN {"IMAP_GREETING"} ELSE ImapReply(line)

\* Any +OK that is not about TLS or CAPA counts as a successful login.
Pop3Reply(line) ==
  CASE line = "+OK TLS" -> {"STLS_ACCEPTED"}
    [] line = "+OK CAPA" -> {"CAPABILITY_RESPONSE"}
    [] line = "+OK" -> {"AUTH_SUCCESS"}
    [] line = "-ERR TLS" -> {"STLS_REJECTED"}
    [] line = "-ERR AUTH" -> {"AUTH_FAILED"}
    [] line = "-ERR" -> {"SERVER_ERROR"}
    [] OTHER -> {}

Pop3ServerLine(line, seen) ==
  CASE seen.listing -> IF line = "STLS" THEN {"STARTTLS_ADVERTISED"} ELSE {}
    [] ~seen.listing /\ ~seen.greeted /\ Greets("POP3", line) -> {"POP3_GREETING"}
    [] OTHER -> Pop3Reply(line)

ServerLine(proto, line, seen) ==
  CASE proto = "SMTP" -> SmtpServerLine(line, seen)
    [] proto = "IMAP" -> ImapServerLine(line, seen)
    [] proto = "POP3" -> Pop3ServerLine(line, seen)

\* A mutant: the clock advances only after a line was looked at.
ServerTimeFromZero(i) == 100 * (i - 1)

\* The loops add time_increment before they look at a line.
ServerTime(i) == 100 * i
ClientTime(i) == 100 * i + 50

Event(type, dir, time, line) == [type |-> type, dir |-> dir, time |-> time, line |-> line]

\* The events of line i of the server's stream.
TypesAt(proto, lines, i) == ServerLine(proto, lines[i], Seen(proto, lines, i))

ServerEvents(proto, lines) ==
  UNION {{Event(t, "S2C", ServerTime(i), i) : t \in TypesAt(proto, lines, i)} : i \in DOMAIN lines}

-----------------------------------------------------------------------------
(* The client's stream.  A line that is no known command has no event.     *)

NoCommand == "none"

SmtpCommand(text) ==
  CASE text \in {"EHLO", "HELO", "QUIT", "RSET", "NOOP"} -> text
    [] text = "STARTTLS" -> "STARTTLS_REQUESTED"
    [] text = "AUTH" -> "AUTH_ATTEMPT"
    [] text = "MAIL" -> "MAIL_FROM"
    [] text = "RCPT" -> "RCPT_TO"
    [] text = "DATA" -> "DATA_START"
    [] OTHER -> NoCommand

ImapCommand(text) ==
  CASE text \in {"LOGOUT", "NOOP"} -> text
    [] text = "STARTTLS" -> "STARTTLS_REQUESTED"
    [] text \in {"LOGIN", "AUTHENTICATE"} -> "AUTH_ATTEMPT"
    [] text \in {"SELECT", "EXAMINE"} -> "SELECT"
    [] OTHER -> NoCommand

Pop3Command(text) ==
  CASE text \in {"QUIT", "NOOP"} -> text
    [] text = "STLS" -> "STLS_REQUESTED"
    [] text \in {"USER", "PASS", "AUTH"} -> "AUTH_ATTEMPT"
    [] OTHER -> NoCommand

Command(proto, text) ==
  CASE proto = "SMTP" -> SmtpCommand(text)
    [] proto = "IMAP" -> ImapCommand(text)
    [] proto = "POP3" -> Pop3Command(text)

\* Where the client's stream has got to: each line knows where it ends.
Offset(client) == IF client = <<>> THEN 0 ELSE Last(client).end

\* The TLS ClientHello ends the cleartext.  If a newline follows it somewhere
\* in the capture ("line") the loop over the lines meets it; otherwise ("tail")
\* only the scan of the raw bytes does, and its time comes from its offset, a
\* tenth of a millisecond per byte.  Times near 1.7e9 seconds are rounded, so
\* two that should coincide may fall either way: rounding is -1, 0 or 1.
HelloTime(client, hello, rounding) ==
  IF hello = "line" THEN ClientTime(Len(client) + 1)
  ELSE 50 + 10 * Offset(client) + rounding

CommandEventsOf(proto, client) ==
  {Event(Command(proto, client[i].text), "C2S", ClientTime(i), i) :
     i \in {j \in DOMAIN client : Command(proto, client[j].text) # NoCommand}}

HelloEvents(client, hello, rounding) ==
  IF hello = "none" THEN {}
  ELSE {Event("TLS_HANDSHAKE_STARTED", "C2S", HelloTime(client, hello, rounding),
              Len(client) + 1)}

ClientEvents(proto, client, hello, rounding) ==
  CommandEventsOf(proto, client) \cup HelloEvents(client, hello, rounding)

\* The sort is by time, then by offset in the stream, and keeps the order of
\* what is equal: of two events of one line, the offer of STARTTLS is the later.
\* Lines of the two sides never meet at one time; where the hello of a "tail"
\* meets another event, rounding decides, and 0 leaves the other event first.
Earlier(e, f) ==
  \/ e.time < f.time
  \/ e.time = f.time /\ e.dir = "S2C" /\ f.dir = "C2S"
  \/ e.time = f.time /\ e.dir = f.dir /\ e.line < f.line
  \/ /\ e.time = f.time /\ e.dir = f.dir /\ e.line = f.line
     /\ e.type # "STARTTLS_ADVERTISED" /\ f.type = "STARTTLS_ADVERTISED"

\* An event's place in the merged list: one more than the events before it.
Place(all, e) == Cardinality({f \in all : Earlier(f, e)}) + 1

SortedByTime(all) ==
  [k \in 1 .. Cardinality(all) |-> CHOOSE e \in all : Place(all, e) = k]

ParseStreams(proto, client, lines, hello, rounding) ==
  SortedByTime(ServerEvents(proto, lines) \cup ClientEvents(proto, client, hello, rounding))
=============================================================================
