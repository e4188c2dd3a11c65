----------------------------- MODULE HttpValidation -----------------------------
(***************************************************************************)
(* What the /mcp endpoint (http_jsonrpc.cpp) lets through: the checks of   *)
(* ValidateModernHttpRequest, the CORS preflight, and the refusal of other *)
(* verbs.  Pure operators, used by HttpTransport.                          *)
(*                                                                         *)
(* A header is None when it is absent; one that is sent several times      *)
(* stands for the value httplib returns.  The value of an encoded header   *)
(* is what DecodeMcpHeaderValue makes of it: a name or an argument, or a   *)
(* value that no name and no argument has.                                 *)
(***************************************************************************)
EXTENDS Integers, Sequences

CONSTANTS
    None,           \* absent
    Empty,          \* the empty string
    Latest,         \* kLatestProtocolVersion
    Properties,     \* the properties each registered tool's schema declares
    Required        \* the properties each of them requires

\* For a registered schema that requires an undeclared property the code answers
\* 500; the schemas of mcp_server_main.cpp are consistent.
ASSUME SchemaAssumption ==
    /\ DOMAIN Required = DOMAIN Properties
    /\ \A tool \in DOMAIN Properties : Required[tool] \subseteq Properties[tool]

\* What a POST carries: headers origin, content_type (JSON), accept (both types),
\* version, method, name and, for each parameter, params; the shape of its body;
\* and in the body the version of _meta, the method, whether it has an id, the
\* name it is about, the arguments, and whether these and clientCapabilities are
\* objects.  Names of parameters compare without their case.
BodyShapes == {"not_json", "not_object", "not_request", "no_params", "request"}

Tools == DOMAIN Properties

-------------------------------------------------------------------------------
IsAllowedOrigin(origin) == origin # "foreign"

\* Methods whose Mcp-Name header must name what they are about.
RequiresMcpName(method) == method \in {"tools/call", "resources/read", "prompts/get"}

HeadersSent(post) == DOMAIN post.params

\* get_header_value: an absent header reads as the empty string.
HeaderValue(header) == IF header = None THEN Empty ELSE header

(* ValidateToolParamHeaders.  An unknown tool is left to call_tool.          *)
ToolParamsAgree(post) ==
    LET declared == Properties[post.about] IN
    post.method = "tools/call" =>
        /\ post.argumentsTyped
        /\ post.about \in Tools =>
              /\ Required[post.about] \subseteq DOMAIN post.arguments
              /\ HeadersSent(post) \subseteq declared
              /\ \A n \in declared :
                    /\ n \in DOMAIN post.arguments <=> n \in DOMAIN post.params
                    /\ n \in DOMAIN post.arguments => post.params[n] = post.arguments[n]

\* Faulty: only tools/call needs the Mcp-Name header.
OnlyToolsNamed(post) ==
    post.method = "tools/call" => post.about # None /\ HeaderValue(post.nameHeader) = post.about
NameAgrees(post) ==
    RequiresMcpName(post.method) => post.about # None /\ HeaderValue(post.nameHeader) = post.about

\* The headers that, unlike Mcp-Name, must not be empty.
Matches(header, value) == HeaderValue(header) # Empty /\ HeaderValue(header) = value

\* Each check with the status of its failure, in the order of the code.
Checks(post) ==
    << <<IsAllowedOrigin(post.origin), 403>>,
       <<post.contentType, 415>>,
       <<post.accept, 406>>,
       <<post.shape = "request", 400>>,
       <<post.version # None /\ Matches(post.versionHeader, post.version), 400>>,
       <<post.version = Latest, 400>>,
       <<Matches(post.methodHeader, post.method), 400>>,
       <<NameAgrees(post), 400>>,
       <<ToolParamsAgree(post), 400>>,
       <<post.capabilities, 400>> >>

(* ValidateModernHttpRequest: 0, or the status of the first check that fails. *)
ValidationStatus(post) ==
    LET checks == Checks(post)
        failed == {i \in DOMAIN checks : ~checks[i][1]}
    IN  IF failed = {} THEN 0
        ELSE checks[CHOOSE i \in failed : \A j \in failed : i <= j][2]

-------------------------------------------------------------------------------
\* Request headers a browser may ask for: the fixed ones, and Mcp-Param-* with a
\* name behind it.
AllowedHeaders == {"accept", "content-type", "mcp-protocol-version", "mcp-method", "mcp-name"}
IsAllowedModernRequestHeader(header) == header[1] \in AllowedHeaders \cup {"mcp-param"}

(* OPTIONS /mcp *)
PreflightStatus(origin, headers) ==
    IF IsAllowedOrigin(origin) /\ \A h \in headers : IsAllowedModernRequestHeader(h)
    THEN 204 ELSE 403

(* GET and DELETE /mcp *)
ObsoleteStatus(origin) == IF IsAllowedOrigin(origin) THEN 405 ELSE 403

-------------------------------------------------------------------------------
\* The headers of a POST, as a browser would list them in its preflight.
HeadersOf(post) ==
    {<<"accept">>, <<"content-type">>, <<"mcp-protocol-version">>, <<"mcp-method">>}
        \cup (IF post.nameHeader = None THEN {} ELSE {<<"mcp-name">>})
        \cup {<<"mcp-param", n>> : n \in DOMAIN post.params}

\* What an intermediary may rely on for a POST that the server acts upon: the
\* headers say the same as the body, neither more nor less, and the preflight of
\* that POST is granted.  Only the empty name may go without its header.
Consistent(post) ==
    /\ post.origin \in {None, "local"}
    /\ post.version = Latest /\ post.versionHeader = Latest
    /\ post.methodHeader = post.method
    /\ post.method \in {"tools/call", "resources/read", "prompts/get"} =>
          post.nameHeader = post.about \/ (post.nameHeader = None /\ post.about = Empty)
    /\ post.method = "tools/call" /\ post.about \in Tools =>
          /\ DOMAIN post.params = DOMAIN post.arguments \cap Properties[post.about]
          /\ \A n \in DOMAIN post.params : post.params[n] = post.arguments[n]
    /\ PreflightStatus(post.origin, HeadersOf(post)) = 204
===============================================================================
