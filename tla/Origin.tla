------------------------------- MODULE Origin -------------------------------
(***************************************************************************)
(* Origins of the Graph client: which URLs are usable at all, when two of  *)
(* them share an origin, which absolute request URLs may receive the       *)
(* bearer token, and what resolveURL makes of the reference a caller       *)
(* passes (src/redirect.go, src/client.go).                                *)
(*                                                                         *)
(* A URL is a record.  scheme and host are spellings, compared after Fold  *)
(* (strings.EqualFold); the empty spelling is "absent".  port is NoPort,   *)
(* EmptyPort (the text ends in ':') or the number that was written.  user, *)
(* opaque and fragment say whether that part is present.  Paths and        *)
(* queries do not bear on the origin and are left out.                     *)
(***************************************************************************)
EXTENDS Naturals

CONSTANTS
  Spellings,    \* spellings of schemes and hosts, "" excluded
  Ports,        \* the port numbers a URL may carry
  Fold(_),      \* the case folding of a spelling
  NoPort,       \* the port of a URL that writes none
  EmptyPort,    \* the port of a URL whose host ends in ':'
  BaseURL,      \* the configured base URL (WithBaseURL, client.go:74)
  AllowedHosts  \* [host, port] pairs given to WithAllowedHosts (client.go:144)

MaxPort == 65535          \* ParseUint(port, 10, 16), redirect.go:141

URL == [scheme : Spellings \cup {""}, host : Spellings \cup {""},
        port : Ports \cup {NoPort, EmptyPort},
        user : BOOLEAN, opaque : BOOLEAN, fragment : BOOLEAN]

\* strings.EqualFold
EqualFold(a, b) == Fold(a) = Fold(b)

\* The port number the URL means; 0 stands for "refused" when PortOk fails.
OriginPort(u) ==
  CASE u.port = NoPort    -> IF EqualFold(u.scheme, "https") THEN 443 ELSE 80
    [] u.port = EmptyPort -> 0
    [] OTHER              -> u.port

PortOk(u) == /\ u.port # EmptyPort
             /\ u.port # NoPort => u.port <= MaxPort

ValidHTTPURL(u) ==
  /\ ~u.user /\ ~u.opaque /\ ~u.fragment
  /\ u.host # ""
  /\ EqualFold(u.scheme, "http") \/ EqualFold(u.scheme, "https")
  /\ PortOk(u)

SameOrigin(a, b) ==
  /\ ValidHTTPURL(a) /\ ValidHTTPURL(b)
  /\ EqualFold(a.scheme, b.scheme)
  /\ EqualFold(a.host, b.host)
  /\ OriginPort(a) = OriginPort(b)

\* &url.URL{Scheme: s, Host: h}
HostURL(s, h) == [scheme |-> s, host |-> h.host, port |-> h.port,
                  user |-> FALSE, opaque |-> FALSE, fragment |-> FALSE]

\* Mutant: an allowed host is allowed on every port.
HostAllowedAnyPort(u) ==
  /\ EqualFold(u.scheme, BaseURL.scheme)
  /\ SameOrigin(u, BaseURL) \/ \E h \in AllowedHosts : EqualFold(u.host, h.host)

HostAllowed(u) ==
  /\ EqualFold(u.scheme, BaseURL.scheme)
  /\ \/ SameOrigin(u, BaseURL)
     \/ \E h \in AllowedHosts : SameOrigin(u, HostURL(BaseURL.scheme, h))

Refused(why) == [ok |-> FALSE, why |-> why]
Resolved(u) == [ok |-> TRUE, url |-> u]

\* What a request URL resolves to: itself when it is absolute, usable and on
\* an allowed host; the base URL with the path replaced when it is relative.
ResolveURL(ref) ==
  IF ref.scheme # ""
  THEN IF ~ValidHTTPURL(ref) THEN Refused("invalid")
       ELSE IF ~HostAllowed(ref) THEN Refused("untrusted")
       ELSE Resolved(ref)
  ELSE IF ref.host # "" THEN Refused("untrusted")
       ELSE IF ref.user \/ ref.fragment \/ ref.opaque THEN Refused("invalid")
       ELSE Resolved(BaseURL)

-----------------------------------------------------------------------------
(***************************************************************************)
(* The reference: an origin is the triple of RFC 6454, and the client      *)
(* trusts the origin of its base URL and, with the scheme of the base URL, *)
(* the hosts it was told to allow.                                         *)
(***************************************************************************)
Triple(u) == <<Fold(u.scheme), Fold(u.host),
               IF u.port = NoPort
               THEN (IF Fold(u.scheme) = Fold("https") THEN 443 ELSE 80)
               ELSE u.port>>

TrustedOrigins ==
  {Triple(BaseURL)} \cup {Triple(HostURL(BaseURL.scheme, h)) : h \in AllowedHosts}

\* New (client.go:211) refuses any other base URL.
ASSUME BaseAssumption == BaseURL \in URL /\ ValidHTTPURL(BaseURL)
ASSUME HostsAssumption ==
  AllowedHosts \subseteq [host : Spellings \cup {""}, port : Ports \cup {NoPort, EmptyPort}]
ASSUME PortsAssumption == Ports \subseteq Nat /\ NoPort \notin Nat /\ EmptyPort \notin Nat
                          /\ NoPort # EmptyPort
ASSUME SchemeAssumption == Fold("http") # Fold("https")
=============================================================================
