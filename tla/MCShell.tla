------------------------------ MODULE MCShell ------------------------------
(* Shell with one gateway, and scripts that call a script, themselves and
   each other; -f may name one that is missing. *)
EXTENDS Shell

CONSTANTS h1, a1, t1, rc, conf, loop, tokenFile, noToken

GatewayAdverts == {[host |-> h1, ip |-> a1, port |-> 443]}

(* The token itself, a file that holds it, and one that cannot be read. *)
TokenArguments == [arg \in {t1, tokenFile, noToken} |-> IF arg = noToken THEN NULL ELSE t1]

TypedLines == {
  Line("TaHoma_host", h1), Line("TaHoma_port", 65979), Line("TaHoma_port", NULL),
  Line("TaHoma_token", tokenFile), Line("TaHoma_token", noToken), Line("TaHoma_token", t1),
  Line("trace", On), Line("trace", More), Line("trace", Off), Line("scan_TaHoma", NULL),
  Line("save_config", rc), Line("script", conf), Line("script", NULL),
  Line("status", NULL), Line("quit", NULL) }

(* conf waits for a key and saves over the startup script, which may be what
   called it. *)
ScriptFiles(startup) ==
  [f \in Files |->
     CASE f = rc -> startup
       [] f = conf -> << Indented(Line("TaHoma_host", h1)), Line("TaHoma_address", a1),
                         Line("Event", NULL), Line("save_config", rc) >>
       [] f = loop -> << Line("trace", On), Line("script", loop), Line("script", conf) >>
       [] OTHER -> NoFile]

FileSystems == {ScriptFiles(NoFile), ScriptFiles(<<Line("script", conf), Line("TaHoma_port", 443)>>)}
=============================================================================
