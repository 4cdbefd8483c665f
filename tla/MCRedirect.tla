----------------------------- MODULE MCRedirect -----------------------------
(* Redirect with a base URL, one more allowed host and a foreign one.       *)
EXTENDS Redirect

MCFold(s) == CASE s = "HTTPS" -> "https" [] s = "GRAPH" -> "graph" [] OTHER -> s

MCSpellings == {"http", "https", "HTTPS", "ftp", "graph", "GRAPH", "allowed", "foreign"}
MCPorts == {0, 80, 443, 8443, 65536}

Url(scheme, host, port) ==
  [scheme |-> scheme, host |-> host, port |-> port,
   user |-> FALSE, opaque |-> FALSE, fragment |-> FALSE]

MCBaseURL == Url("https", "graph", NoPort)
MCAllowedHosts == {[host |-> "allowed", port |-> 8443], [host |-> "allowed", port |-> EmptyPort]}

RelativeRef == Url("", "", NoPort)

\* every shape of reference: two spellings of home, an allowed host, a
\* downgrade, foreign hosts and ports, and each way a URL can be unusable
MCReferences ==
  {RelativeRef, Url("", "graph", NoPort), MCBaseURL, Url("HTTPS", "GRAPH", 443),
   Url("https", "allowed", 8443), Url("https", "allowed", NoPort), Url("http", "graph", 443),
   Url("https", "foreign", NoPort), Url("https", "graph", 65536), Url("https", "graph", EmptyPort),
   Url("ftp", "graph", NoPort), [MCBaseURL EXCEPT !.user = TRUE],
   [RelativeRef EXCEPT !.fragment = TRUE]}

MCLocations ==
  {RelativeRef, [RelativeRef EXCEPT !.fragment = TRUE], Url("", "foreign", NoPort),
   Url("https", "GRAPH", 443), Url("http", "graph", 443), Url("https", "allowed", 8443),
   Url("https", "graph", 0), [MCBaseURL EXCEPT !.user = TRUE]}

MCCallbackURLs == {MCBaseURL, Url("https", "allowed", 8443), Url("https", "foreign", NoPort)}
MCCallbackHosts == {[host |-> "graph", port |-> 443], [host |-> "foreign", port |-> NoPort]}
MCOtherBinding == [origin |-> Url("https", "foreign", NoPort), method |-> "GET"]
MCMethods == {"GET", "OPTIONS", "PATCH"}
=============================================================================
