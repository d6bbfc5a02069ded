----------------------------------- MODULE Mailing ---------------------------------
(* A mail from its first call to the SMTP server: mail/mailer.rs, and template/engine.rs *)
(* where a mail is rendered from a template and its .txt counterpart while another     *)
(* clone of the engine reads the templates again from a directory that changes. The    *)
(* server takes a message or refuses it.                                          *)
EXTENDS Integers, FiniteSets, SequencesExt, TLC

CONSTANTS Handles,    \* clones of the TemplateEngine; each mail is rendered with one
          MaxCalls,   \* bound: calls on a builder
          MaxEdits,   \* bound: changes of the template directory
          MaxLoads    \* bound: times the directory is read

MailAssumption == {MaxCalls, MaxEdits, MaxLoads} \subseteq Nat

VARIABLES sender,     \* the configured address a mailer sends from
          builder,    \* the mail that is composed
          disk,       \* template -> edition of its file
          engines,    \* handle -> what it has loaded, what it is loading or rendering
          sent,       \* what the SMTP server took
          asked       \* history: the calls that succeeded, the readings of the directory

mailing == <<sender, builder, disk, engines, sent, asked>>

-----------------------------------------------------------------------------------
(* Mailer and MailBuilder. *)

Addresses == {"ann", "bob", "not an address"}
parses(address) == address # "not an address"

None == "none"

compose == [at |-> "open", from |-> sender, to |-> <<>>, cc |-> <<>>, bcc |-> <<>>,
            reply_to |-> None, subject |-> "", text |-> None, html |-> None, attachments |-> <<>>,
            priority |-> "normal"]

Closed == [at |-> "idle"]
Gave == [at |-> "sent"]
Failed == [at |-> "failed"]

(* A call either gives the builder back changed, or consumes it with an error. *)
Call(works, changed, what) ==
    /\ builder.at = "open" /\ Len(asked.calls) < MaxCalls
    /\ builder' = IF works THEN changed ELSE Failed
    /\ asked' = [asked EXCEPT !.calls = IF works THEN Append(@, what) ELSE <<>>]
    /\ UNCHANGED <<sender, disk, engines, sent>>

(* A mail is composed by hand, or the engine sends mails: the two share the mailer     *)
(* only, which nothing changes.                                                        *)
Unused == asked.edits = 0 /\ asked.loads = 0 /\ \A h \in Handles : engines[h].at = "idle"

Compose == /\ builder = Closed /\ sent = <<>> /\ Unused
           /\ builder' = compose
           /\ UNCHANGED <<sender, disk, engines, sent, asked>>

(* to, to_many and the same for cc and bcc: each address is checked before it is added. *)
Recipients(field, addresses) == Call(\A i \in DOMAIN addresses : parses(addresses[i]),
                                     [builder EXCEPT ![field] = @ \o addresses],
                                     <<field, addresses>>)

From(address) == Call(TRUE, [builder EXCEPT !.from = address], <<"from", <<address>>>>)
ReplyTo(address) == Call(parses(address), [builder EXCEPT !.reply_to = address],
                         <<"reply_to", <<address>>>>)
Subject(subject) == Call(TRUE, [builder EXCEPT !.subject = subject], <<"subject", <<subject>>>>)
Text == Call(TRUE, [builder EXCEPT !.text = "text"], <<"text", <<>>>>)
Html == Call(TRUE, [builder EXCEPT !.html = "html"], <<"html", <<>>>>)
Priority == Call(TRUE, [builder EXCEPT !.priority = "high"], <<"priority", <<>>>>)

(* An attachment is named by its extension. *)
Attachment(name, type) == [name |-> name, type |-> type]
With(attachment) == [builder EXCEPT !.attachments = Append(@, attachment)]

(* attach: bytes, with a content type that the caller gives. *)
Attach(name, type) == Call(TRUE, With(Attachment(name, type)), <<"attach", <<Attachment(name, type)>>>>)

(* The content type is guessed from the extension of the file, which may be gone. *)
guess_content_type(extension) == CASE extension = "pdf" -> "application/pdf"
                                   [] extension = "csv" -> "text/csv"
                                   [] OTHER -> "application/octet-stream"

AttachFile(extension, exists) ==
    Call(exists, With(Attachment(extension, guess_content_type(extension))),
         <<"attach", <<Attachment(extension, "by its name")>>>>)

make_body_part(b) == IF b.text # None /\ b.html # None THEN <<"alternative", b.text, b.html>>
                     ELSE IF b.html # None THEN <<"alternative", b.html>>
                     ELSE <<"alternative", b.text>>

(* The body without its attachments; html is last, which readers prefer. *)
Body_TextLast(b) == IF b.attachments # <<>> THEN make_body_part(b)
                    ELSE IF b.text # None /\ b.html # None THEN <<"alternative", b.html, b.text>>
                    ELSE IF b.html # None THEN <<b.html>> ELSE <<b.text>>

Body(b) == IF b.attachments # <<>> \/ (b.text # None /\ b.html # None) THEN make_body_part(b)
           ELSE IF b.html # None THEN <<b.html>> ELSE <<b.text>>

(* A content type that is none is that of bytes. *)
Parts(attachments) ==
    [i \in DOMAIN attachments |->
        IF attachments[i].type = "no type" THEN [attachments[i] EXCEPT !.type = "application/octet-stream"]
        ELSE attachments[i]]

(* No header of the message comes from the priority. *)
build_message(b) == [from |-> b.from, to |-> b.to, cc |-> b.cc, bcc |-> b.bcc,
                     reply_to |-> b.reply_to, subject |-> b.subject, body |-> Body(b),
                     attachments |-> Parts(b.attachments), priority |-> None]

Sendable(b) == /\ b.to # <<>> /\ b.subject # ""
               /\ b.text # None \/ b.html # None
               /\ parses(b.from)

Send(b, taken) == IF Sendable(b) /\ taken THEN Append(sent, build_message(b)) ELSE sent

SendBuilt(taken) == /\ builder.at = "open"
                    /\ sent' = Send(builder, taken)
                    /\ IF Sendable(builder) /\ taken THEN builder' = Gave /\ UNCHANGED asked
                       ELSE builder' = Failed /\ asked' = [asked EXCEPT !.calls = <<>>]
                    /\ UNCHANGED <<sender, disk, engines>>

-----------------------------------------------------------------------------------
(* TemplateEngine. A loaded template is the edition of its file; an edition that is    *)
(* negative does not parse.                                                            *)

Names == {"mail.html", "mail.txt", "feed.xml"}

(* The name with .html replaced, which for another template is its own name. *)
Counterpart(name) == IF name = "mail.html" THEN "mail.txt" ELSE name

Gone == 0

Edit(name, edition) ==
    /\ asked.edits < MaxEdits /\ builder = Closed /\ sent = <<>> /\ disk[name] # edition
    /\ disk' = [disk EXCEPT ![name] = edition]
    /\ asked' = [asked EXCEPT !.edits = @ + 1]
    /\ UNCHANGED <<sender, builder, engines, sent>>

(* reload needs the handle for itself; no mail is rendered with it at the same time.   *)
Reload(h) == /\ engines[h].at = "idle" /\ asked.loads < MaxLoads /\ builder = Closed
             /\ engines' = [engines EXCEPT ![h].at = "loading",
                                           ![h].load = [n \in {} |-> Gone], ![h].left = Names]
             /\ asked' = [asked EXCEPT !.loads = @ + 1]
             /\ UNCHANGED <<sender, builder, disk, sent>>

ReadFile(h, name) == /\ engines[h].at = "loading" /\ name \in engines[h].left
                     /\ engines' = [engines EXCEPT ![h].load = @ @@ (name :> disk[name]),
                                                   ![h].left = @ \ {name}]
                     /\ UNCHANGED <<sender, builder, disk, sent, asked>>

Parses(load) == \A name \in Names : load[name] >= Gone

(* The engine is replaced only when every template parses; clones keep their own.      *)
Replaced_Partly(old, load) == [name \in Names |-> IF load[name] >= Gone THEN load[name] ELSE old[name]]
Replaced(old, load) == IF Parses(load) THEN load ELSE old

Loaded(h) == /\ engines[h].at = "loading" /\ engines[h].left = {}
             /\ engines' = [engines EXCEPT ![h].at = "idle",
                                           ![h].tera = Replaced(@, engines[h].load),
                                           ![h].load = [n \in {} |-> Gone]]
             /\ asked' = [asked EXCEPT !.readings = @ \union {engines[h].load}]
             /\ UNCHANGED <<sender, builder, disk, sent>>

Has(h, name) == engines[h].tera[name] # Gone

Idle(tera) == [at |-> "idle", tera |-> tera, load |-> [n \in {} |-> Gone], left |-> {},
               name |-> "", mail |-> [from |-> None, to |-> None], html |-> <<>>, text |-> <<>>]

(* send_mail, whose mail is from the mailer, and send_mail_from, which names an address: *)
(* the html is rendered first, then the text if the engine has the counterpart, then the *)
(* mail is composed and sent. A template that is gone or fails ends it with an error.    *)
SendMail(h, name, mail, works) ==
    /\ engines[h].at = "idle" /\ builder = Closed /\ sent = <<>>
    /\ asked.mail = <<>>   \* bound: one mail of a template
    /\ works => Has(h, name)
    /\ engines' = IF works THEN [engines EXCEPT ![h].at = "rendering", ![h].name = name, ![h].mail = mail,
                                                ![h].html = <<name, engines[h].tera[name]>>]
                  ELSE engines
    /\ asked' = [asked EXCEPT !.mail = <<mail>>]
    /\ UNCHANGED <<sender, builder, disk, sent>>

RenderText(h, works) ==
    /\ engines[h].at = "rendering"
    /\ LET txt == Counterpart(engines[h].name) IN
       engines' = IF ~Has(h, txt) THEN [engines EXCEPT ![h].at = "sending", ![h].text = <<>>]
                  ELSE IF works THEN [engines EXCEPT ![h].at = "sending",
                                                     ![h].text = <<txt, engines[h].tera[txt]>>]
                  ELSE [engines EXCEPT ![h] = Idle(@.tera)]
    /\ UNCHANGED <<sender, builder, disk, sent, asked>>

(* Without a counterpart the html goes alone, by send_html or the like. *)
Rendered(h) ==
    LET mail == engines[h].mail
    IN  [compose EXCEPT !.from = IF mail.from = None THEN @ ELSE mail.from,
                        !.to = <<mail.to>>, !.subject = "welcome", !.html = "html",
                        !.text = IF engines[h].text = <<>> THEN None ELSE "text"]

(* to refuses an address that does not parse. *)
Deliver(h, taken) ==
    /\ engines[h].at = "sending"
    /\ sent' = IF parses(engines[h].mail.to) /\ Sendable(Rendered(h)) /\ taken
               THEN Append(sent, build_message(Rendered(h))
                                     @@ [rendered |-> [html |-> engines[h].html, text |-> engines[h].text]])
               ELSE sent
    /\ engines' = [engines EXCEPT ![h] = Idle(@.tera)]
    /\ UNCHANGED <<sender, builder, disk, asked>>

-----------------------------------------------------------------------------------

(* The engine loaded what was there at the start, and was cloned. *)
Init == /\ sender \in {"ann", "not an address"}
        /\ builder = Closed /\ sent = <<>>
        /\ disk \in {[n \in Names |-> 1], [n \in Names |-> IF n = "mail.txt" THEN Gone ELSE 1]}
        /\ engines = [h \in Handles |-> Idle(disk)]
        /\ asked = [calls |-> <<>>, mail |-> <<>>, edits |-> 0, loads |-> 0, readings |-> {disk}]

Calls == \/ \E addresses \in {<<"ann">>, <<"bob", "ann">>, <<"ann", "not an address">>} :
                    Recipients("to", addresses)
         \/ Recipients("cc", <<"bob">>) \/ Recipients("bcc", <<"bob", "ann">>)
         \/ From("bob") \/ ReplyTo("bob") \/ ReplyTo("not an address")
         \/ \E subject \in {"", "welcome"} : Subject(subject)
         \/ Text \/ Html \/ Priority
         \/ AttachFile("pdf", TRUE) \/ AttachFile("bin", TRUE) \/ AttachFile("csv", FALSE)
         \/ Attach("pdf", "no type")

MailsOfTemplates == {[from |-> None, to |-> "ann"], [from |-> "bob", to |-> "ann"],
                     [from |-> "bob", to |-> "not an address"]}

Next == \/ Compose \/ Calls
        \/ \E taken \in BOOLEAN : SendBuilt(taken)
        \/ \E name \in Names \ {"feed.xml"}, edition \in {-1, Gone, 2} : Edit(name, edition)
        \/ \E h \in Handles :
               \/ Reload(h) \/ Loaded(h)
               \/ \E name \in Names : ReadFile(h, name)
               \/ \E works \in BOOLEAN :
                      \/ RenderText(h, works) \/ Deliver(h, works)
                      \/ \E name \in Names, mail \in MailsOfTemplates : SendMail(h, name, mail, works)

Spec == Init /\ [][Next]_mailing

-----------------------------------------------------------------------------------
(* Properties. *)

TypeOK == /\ sender \in Addresses
          /\ builder.at \in {"idle", "open", "sent", "failed"}
          /\ \A h \in Handles : engines[h].at \in {"idle", "loading", "rendering", "sending"}
          /\ Len(sent) <= 1

Composed == {i \in DOMAIN sent : "rendered" \notin DOMAIN sent[i]}

Asked(field) == SelectSeq(asked.calls, LAMBDA call : call[1] = field)
All(field) == FlattenSeq([i \in DOMAIN Asked(field) |-> Asked(field)[i][2]])
LastOf(field, default) == IF Asked(field) = <<>> THEN default ELSE Last(Asked(field))[2][1]

Once(field) == IF Asked(field) = <<>> THEN <<>> ELSE <<field>>
Leaves(body) == SelectSeq(body, LAMBDA part : part # "alternative")

(* The types that the files and the bytes of the calls should have. *)
ByName == ("pdf" :> "application/pdf") @@ ("bin" :> "application/octet-stream")
WantedType(attachment) ==
    IF attachment.type = "by its name" THEN ByName[attachment.name] ELSE "application/octet-stream"

Wanted == [to |-> All("to"), cc |-> All("cc"), bcc |-> All("bcc"),
           subject |-> LastOf("subject", ""), from |-> LastOf("from", sender),
           reply_to |-> LastOf("reply_to", None), body |-> Once("text") \o Once("html"),
           attachments |-> [i \in DOMAIN All("attach") |->
                               Attachment(All("attach")[i].name, WantedType(All("attach")[i]))],
           priority |-> IF Asked("priority") = <<>> THEN None ELSE "high"]

(* The exception: the priority of a mail is set and never sent. *)
NeverSent == {"priority"}

(* A mail that the server took says what the calls asked for, but for its priority, in   *)
(* their order and with the last word where one replaces another: every recipient, and   *)
(* no other; the text before the html; every attachment, each with its type. A mail that *)
(* nobody could read was not sent.                                                       *)
MailSaysWhatWasAsked ==
    \A i \in Composed :
        LET m == [sent[i] EXCEPT !.body = Leaves(@)] IN
        /\ \A field \in DOMAIN Wanted \ NeverSent : m[field] = Wanted[field]
        /\ m.to # <<>> /\ m.subject # "" /\ m.body # <<>>
        /\ \A a \in ToSet(<<m.from>> \o m.to \o m.cc \o m.bcc) : parses(a)

(* What an engine renders is one reading of the whole directory in which every template  *)
(* parsed, whatever was changed, broken or removed since. A mail of a template is from    *)
(* and to whom was asked; both of its parts are of one such reading, and it has no text   *)
(* part only if there is none in it, never because the text could not be rendered.        *)
MailIsOfOneReading ==
    /\ \A h \in Handles : engines[h].tera \in asked.readings /\ Parses(engines[h].tera)
    /\ \A i \in DOMAIN sent \ Composed :
           LET m == sent[i]  html == m.rendered.html  text == m.rendered.text IN
           /\ m.from = IF asked.mail[1].from = None THEN sender ELSE asked.mail[1].from
           /\ m.to = <<asked.mail[1].to>> /\ parses(m.from) /\ parses(m.to[1])
           /\ Leaves(m.body) = IF text = <<>> THEN <<"html">> ELSE <<"text", "html">>
           /\ \E reading \in asked.readings :
                  /\ reading[html[1]] = html[2]
                  /\ IF text = <<>> THEN reading[Counterpart(html[1])] = Gone
                     ELSE reading[text[1]] = text[2]
==================================================================================
