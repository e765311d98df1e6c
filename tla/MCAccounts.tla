----------------------------- MODULE MCAccounts ------------------------------
(****************************************************************************)
(* Two sign-ins, by one user of oCIS or of an oc10 server.                  *)
(****************************************************************************)
EXTENDS Accounts

CONSTANTS a1, a2, ocis, oc10, f1, f2, s1, s2

Ids == {a1, a2}
Users == {ocis, oc10}
Oc10Users == {oc10}
Folders == {f1, f2}
Spaces == {s1, s2}

\* A WebFinger host whose JRD lists, in this order, a link of another relation, one
\* without TLS, one to another domain and the instance.
Drive == <<"drive", "example", "org">>
Instance == <<"abc">> \o Drive
LinkTo(instance, https, host) == [instance |-> instance, https |-> https, host |-> host]
Jrd == [kind |-> "jrd",
        links |-> <<LinkTo(FALSE, TRUE, Drive), LinkTo(TRUE, FALSE, Drive), LinkTo(TRUE, TRUE, <<"example", "net">>),
                    LinkTo(TRUE, TRUE, Instance)>>]
Answers ==
  [webfinger : {[kind |-> "unreachable"], [kind |-> "other"], Jrd}, document : BOOLEAN, installed : BOOLEAN]

=============================================================================
