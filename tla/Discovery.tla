------------------------------ MODULE Discovery ------------------------------
(****************************************************************************)
(* From the address a user enters to the endpoints of a sign-in: WebFinger, *)
(* the OpenID discovery document, status.php and the fixed endpoints of the *)
(* oc10 OAuth2 app.  A host is the sequence of its labels; what the network *)
(* answers is a record:                                                     *)
(*   webfinger  [kind |-> "unreachable"] no connection, [kind |-> "other"]  *)
(*              an error status or a body that is no JRD, or                *)
(*              [kind |-> "jrd", links |-> the links in order]              *)
(*   document   is there a discovery document at the server found?          *)
(*   installed  does status.php there say so?                               *)
(****************************************************************************)
EXTENDS Naturals, Sequences

\* A link of a JRD: its relation, and the scheme and host of its href.
Link == [instance : BOOLEAN, https : BOOLEAN, host : Seq(STRING)]

\* The last two labels.
registrable_domain(host) ==
  IF Len(host) <= 2 THEN host ELSE SubSeq(host, Len(host) - 1, Len(host))

EndsWith(host, domain) ==
  Len(domain) <= Len(host) /\ SubSeq(host, Len(host) - Len(domain) + 1, Len(host)) = domain

instance_host_is_trusted(base, host) == host = base \/ EndsWith(host, registrable_domain(base))

Usable(base, link) == link.instance /\ link.https /\ instance_host_is_trusted(base, link.host)

\* The host of the first usable link, <<>> if there is none.
select_server_instance(base, links) ==
  LET good == {i \in 1..Len(links) : Usable(base, links[i])}
  IN IF good = {} THEN <<>> ELSE links[CHOOSE i \in good : \A j \in good : i <= j].host

\* The server to sign in at: <<>> for a host that cannot be reached; without a
\* usable link, the host as it was entered.
resolve_server_instance(base, reply) ==
  LET found == IF reply.kind = "jrd" THEN select_server_instance(base, reply.links) ELSE <<>>
  IN IF reply.kind = "unreachable" THEN <<>> ELSE IF found = <<>> THEN base ELSE found

Failed == [flow |-> "none", host |-> <<>>, redirect |-> "none"]

\* OidcAuth::discover, with the callback on 127.0.0.1.
discover(host) == [flow |-> "oidc", host |-> host, redirect |-> "127.0.0.1"]

\* The fixed endpoints, where only localhost is registered.
with_endpoints(host) == [flow |-> "oauth2", host |-> host, redirect |-> "localhost"]

probe_owncloud_status(net) == net.installed

set_up(base, net) ==
  LET host == resolve_server_instance(base, net.webfinger)
  IN IF host = <<>> THEN Failed
     ELSE IF net.document THEN discover(host)
     ELSE IF probe_owncloud_status(net) THEN with_endpoints(host)
     ELSE Failed

=============================================================================
