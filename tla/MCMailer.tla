------------------------------ MODULE MCMailer -------------------------------
(* Instances of Mailer: what a process is given. *)
EXTENDS Mailer, TLC

CONSTANTS c1, c2, l1, l2, l3

(* Of l1 and l2 there are translations; the row of l3 is gone. *)
MCLocaleKind == (l1 :> "translated") @@ (l2 :> "translated") @@ (l3 :> "gone")

-----------------------------------------------------------------------------
(* Settings and rows *)

NoSmtp == [host |-> "", security |-> None, ssl |-> None, port |-> None,
           auth |-> None, username |-> None, password |-> None]

(* A server of the application: without mode, or with one nobody knows. *)
SmtpOf(m) == [NoSmtp EXCEPT !.host = "app", !.security = m,
                            !.username = "app", !.password = "app"]

(* The older layout, where ssl is false and the port is not set. *)
Legacy == [NoSmtp EXCEPT !.host = "legacy", !.ssl = "False",
                         !.username = "legacy", !.password = "legacy"]

NoKeys == [key |-> None, secret |-> None, region |-> None]

Keys(t) == [key |-> t, secret |-> t, region |-> t]

Base == [enabled |-> TRUE, env |-> [enabled |-> None, security |-> None],
         provider |-> "smtp", smtp |-> NoSmtp, legacy |-> NoSmtp,
         ses |-> NoKeys, aws |-> NoKeys]

MCSettings ==
    {[Base EXCEPT !.smtp = SmtpOf("starttls")],
     [Base EXCEPT !.smtp = SmtpOf(None), !.env.security = "tls"],
     [Base EXCEPT !.smtp = [SmtpOf(None) EXCEPT !.port = 0]],
     [Base EXCEPT !.legacy = Legacy],
     [Base EXCEPT !.legacy = [Legacy EXCEPT !.port = 0]],
     [Base EXCEPT !.legacy = [Legacy EXCEPT !.port = 2525, !.ssl = ""]],
     [Base EXCEPT !.provider = "amazonses", !.ses.key = "app", !.aws = Keys("aws")],
     [Base EXCEPT !.smtp = SmtpOf("ssl"), !.enabled = FALSE],
     [Base EXCEPT !.smtp = SmtpOf("ssl"), !.enabled = FALSE, !.env.enabled = "false"]}

NoRow == [provider |-> "smtp", host |-> None, security |-> None, port |-> None,
          username |-> None, password |-> None,
          key |-> None, secret |-> None, region |-> None]

DbHost == [NoRow EXCEPT !.host = "db", !.username = "db", !.password = "db"]

MCRows ==
    {NoRow, [NoRow EXCEPT !.provider = "none"], DbHost,
     [DbHost EXCEPT !.security = "ssl", !.port = 0],
     [DbHost EXCEPT !.security = "starttls", !.port = 2525],
     [NoRow EXCEPT !.provider = "amazonses", !.key = "db"],
     [NoRow EXCEPT !.provider = "amazonses", !.key = "db", !.secret = "db"],
     [NoRow EXCEPT !.provider = "amazon_ses", !.key = "db", !.secret = "db"]}

-----------------------------------------------------------------------------
(* Mails *)

Plain == [body |-> "valid", user |-> "known", locale |-> None, named |-> FALSE,
          style |-> None, template |-> "good"]

Styled == [Plain EXCEPT !.named = TRUE, !.locale = l1, !.style = c1]

Two(a, b) == (c1 :> a) @@ (c2 :> b)

Usual == Two(Styled, Plain)

MCMails ==
    {Usual, Two(Styled, [Plain EXCEPT !.user = "anonymous"]),
     Two(Styled, [Plain EXCEPT !.locale = l3]),
     Two(Styled, [Plain EXCEPT !.body = "invalid"]),
     Two([Styled EXCEPT !.user = "unknown"], [Plain EXCEPT !.body = "no_client_url"]),
     Two([Styled EXCEPT !.template = "missing"], [Plain EXCEPT !.template = "bad"])}

Server == [Base EXCEPT !.smtp = SmtpOf("tls")]

(* Every row with the usual settings; all settings with a row that has no  *)
(* host, so that it borrows from them; all kinds of mails.                 *)
MCGiven ==
    [settings : {[Server EXCEPT !.aws = Keys("aws")]},
     row : MCRows \cup {None}, mails : {Usual}]
    \cup [settings : MCSettings, row : {NoRow}, mails : {Usual}]
    \cup [settings : {[Base EXCEPT !.smtp = SmtpOf("ssl")]}, row : {DbHost}, mails : MCMails]

=============================================================================
