------------------------------- MODULE MCDns --------------------------------
(***************************************************************************)
(* A deployment web with up to two addresses and a deployment web-1, whose *)
(* name is also that of the second replica of web; a client writes Web.    *)
(***************************************************************************)
EXTENDS Dns

MCLower == [x \in Hosts \cup Projects |-> IF x = "Web" THEN "web" ELSE x]

MCSplit == [h \in Hosts |-> IF h = "web-1" THEN [prefix |-> "web", index |-> 1] ELSE None]

Ask(h, t) == [kind |-> "internal", project |-> "shop", host |-> h, qtype |-> t]

MCQueries == {Ask("Web", "A"), Ask("web-1", "A"), Ask("web-1", "AAAA"), Ask("web-1", "ANY")}
             \cup {[kind |-> k] : k \in {"malformed", "external", "garbage"}}

=============================================================================
