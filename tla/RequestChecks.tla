--------------------------- MODULE RequestChecks ---------------------------
(***************************************************************************)
(* What the server makes of a request that HttpServer has read: the checks *)
(* of ValidateDashboardRequest, and the route.  The token of the checks is *)
(* made anew when the program starts and travels in the page, which may    *)
(* outlive the program; the port they compare is the one the listener is   *)
(* bound to, which is not the configured one after a configuration with    *)
(* another port was imported.                                              *)
(***************************************************************************)
EXTENDS Integers

CONSTANTS
  Port,        \* the ports a configuration may name
  MaxStarts    \* bound: starts of the program

NoToken == 0        \* none in the request, or GenerateSecurityToken() failed
WrongToken == -1
NoPort == 0         \* not written
DefaultPort == 80   \* a browser does not write it

ASSUME RequestAssumption == Port \subseteq Nat \ {0} /\ MaxStarts \in Nat \ {0}

(* HandleHttpConnection, by method. *)
GetRoutes ==
  {"/", "/favicon.ico", "/profiles", "/api/status", "/api/profiles", "/api/capture/poll",
   "/api/v1/state", "/api/v1/applications", "/api/v1/windows", "/api/v1/windows/foreground",
   "/api/v1/presets", "/api/v1/config/export", "/api/v1/events", "/api/v1/startup",
   "/api/v1/devices", "/api/v1/hid", "/api/v1/input/identify", "/api/v1/activity",
   "/api/v1/diagnostics"}

PostRoutes ==
  {"/api/profile/activate", "/api/profile", "/api/key", "/api/key/delete", "/api/key/update",
   "/api/key/move", "/api/key/duplicate", "/api/reload", "/api/capture/start",
   "/api/v1/profile/create", "/api/v1/profile/delete", "/api/v1/profile/rename",
   "/api/v1/profile/duplicate", "/api/v1/profile/link-app", "/api/v1/profile/unlink-app",
   "/api/v1/profile/set-default-app", "/api/v1/windows/foreground/pick",
   "/api/v1/applications/create", "/api/v1/config/import", "/api/v1/preset/apply",
   "/api/v1/applications/test-resolve", "/api/v1/startup", "/api/v1/driver/swap",
   "/api/v1/driver/restore", "/api/v1/devices/detect", "/api/v1/devices/capture",
   "/api/v1/devices/activate", "/api/v1/input/identify", "/api/v1/action/fire"}

(* kMutationPaths. *)
MutationPaths ==
  {"/api/profile/activate", "/api/profile", "/api/key", "/api/key/delete", "/api/key/update",
   "/api/key/move", "/api/key/duplicate", "/api/reload", "/api/capture/start",
   "/api/v1/profile/create", "/api/v1/profile/delete", "/api/v1/profile/rename",
   "/api/v1/profile/duplicate", "/api/v1/profile/link-app", "/api/v1/profile/unlink-app",
   "/api/v1/profile/set-default-app", "/api/v1/applications/create",
   "/api/v1/applications/test-resolve", "/api/v1/config/import", "/api/v1/preset/apply",
   "/api/v1/devices/activate", "/api/v1/devices/detect", "/api/v1/devices/capture",
   "/api/v1/action/fire", "/api/v1/windows/foreground/pick", "/api/v1/driver/swap",
   "/api/v1/driver/restore"}

VARIABLES
  configPort,      \* HTTPPort of config.ini and of g_configGeneral
  g_httpPortBound, \* of the listener
  g_csrfToken,     \* of the running program
  starts,
  page,            \* the dashboard that is open: its CSRF_TOKEN, the port it was served from
  request,         \* the last request
  answer           \* its HTTP status

requestVars == <<configPort, g_httpPortBound, g_csrfToken, starts, page, request, answer>>

NoRequest == [asker |-> "nobody"]
Served == 200 \* answered by the branch of its route
-----------------------------------------------------------------------------
IsMutationMethod(method) == method \in {"POST", "PUT", "PATCH", "DELETE"}

IsMutationPath(path) == path \in MutationPaths

(* Mutant: the port that is configured. *)
ConfiguredPort == configPort

LiveHttpPort == g_httpPortBound

(* A bare host gets the port before it is checked. *)
HostIsValid(host) ==
  host.name \in {"127.0.0.1", "localhost"} /\ host.port \in {NoPort, LiveHttpPort}

(* The origin has no such grace. *)
IsAllowedOrigin(origin) ==
  \A o \in origin : o.name \in {"127.0.0.1", "localhost"} /\ o.port = LiveHttpPort

(* ValidateDashboardRequest: the first check that fails names the status.  *)
Validate(r) ==
  LET mutation == IsMutationMethod(r.method) \/ IsMutationPath(r.path)
  IN  IF g_csrfToken = NoToken THEN 500
      ELSE IF r.size = "headers" THEN 431
      ELSE IF r.size = "body" THEN 413
      ELSE IF ~ HostIsValid(r.host) \/ ~ IsAllowedOrigin(r.origin) \/ r.site = "cross-site" THEN 403
      ELSE IF r.method = "GET" /\ IsMutationPath(r.path) THEN 405
      ELSE IF mutation /\ r.token # g_csrfToken THEN 403
      ELSE IF mutation /\ ~ r.json THEN 415
      ELSE Served

(* HandleHttpConnection: the checks, then the routes. *)
Judge(r) ==
  LET routes == IF r.method = "GET" THEN GetRoutes
                ELSE IF r.method = "POST" THEN PostRoutes ELSE {}
  IN  IF Validate(r) # Served THEN Validate(r)
      ELSE IF /\ r.method \in {"GET", "HEAD"}
              /\ IsMutationPath(r.path) \/ r.path \in {"/switch", "/profile"}
           THEN 405
      ELSE IF r.path \in routes THEN Served ELSE 404

RequestInit ==
  /\ configPort \in Port /\ g_httpPortBound = configPort
  /\ g_csrfToken \in {NoToken, 1} /\ starts = 1
  /\ page = [token |-> NoToken, port |-> NoPort]
  /\ request = NoRequest /\ answer = 0

(* The program starts anew, perhaps under its supervisor. *)
StartProgram ==
  /\ starts < MaxStarts
  /\ starts' = starts + 1
  /\ g_csrfToken' \in {NoToken, starts + 1}
  /\ g_httpPortBound' = configPort
  /\ request' = NoRequest /\ answer' = 0
  /\ UNCHANGED <<configPort, page>>

(* A configuration is imported and loaded: ApplyGeneralSettings leaves the *)
(* listener, and g_httpPort, as they are.                                  *)
Configure(port) ==
  /\ configPort' = port
  /\ UNCHANGED <<g_httpPortBound, g_csrfToken, starts, page, request, answer>>

Asks(r) ==
  /\ request' = r /\ answer' = Judge(r)
  /\ UNCHANGED <<configPort, g_httpPortBound, g_csrfToken, starts>>

(* The next request comes in. *)
NextRequest ==
  /\ request # NoRequest
  /\ request' = NoRequest /\ answer' = 0
  /\ UNCHANGED <<configPort, g_httpPortBound, g_csrfToken, starts, page>>

(* What a browser sends for a page: the origin, except with GET. *)
PageRequest(method, path, port) ==
  LET self == [name |-> "127.0.0.1", port |-> IF port = DefaultPort THEN NoPort ELSE port]
  IN [asker |-> "page", method |-> method, path |-> path, token |-> page.token, json |-> TRUE,
      host |-> self, origin |-> IF method = "GET" THEN {} ELSE {self},
      site |-> "same-origin", size |-> "fits"]

(* The user opens the dashboard: the token is written into the page. *)
OpenPage ==
  /\ Asks([PageRequest("GET", "/", LiveHttpPort) EXCEPT !.site = "none", !.token = NoToken,
                                                       !.json = FALSE])
  /\ page' = IF answer' = Served THEN [token |-> g_csrfToken, port |-> g_httpPortBound] ELSE page

(* api() and EventSource of app.js; a page reaches the port it came from. *)
PageAsks(method, path) ==
  /\ page.port = g_httpPortBound
  /\ path \in IF method = "GET" THEN GetRoutes ELSE PostRoutes
  /\ Asks(PageRequest(method, path, page.port))
  /\ UNCHANGED page

(* A script of the user, or another page: with any header wrong or missing. *)
OtherAsks(method, path, token, json, host, origin, site, size) ==
  /\ Asks([asker |-> "other", method |-> method, path |-> path, token |-> token, json |-> json,
           host |-> host, origin |-> origin, site |-> site, size |-> size])
  /\ UNCHANGED page

Paths == GetRoutes \cup PostRoutes \cup {"/switch"}

OtherMethods == {"GET", "HEAD", "POST", "PUT"}

SomeRequest ==
  \/ OpenPage
  \/ \E method \in {"GET", "POST"}, path \in Paths : PageAsks(method, path)
  \/ \E method \in OtherMethods, path \in Paths,
        token \in {NoToken, WrongToken, g_csrfToken}, json \in BOOLEAN,
        origin \in {{}, {[name |-> "localhost", port |-> g_httpPortBound]}},
        host \in {[name |-> "localhost", port |-> g_httpPortBound], [name |-> "other", port |-> NoPort]} :
       OtherAsks(method, path, token, json, host, origin, "none", "fits")
  \/ \E method \in OtherMethods, site \in {"none", "cross-site"},
        size \in {"fits", "headers", "body"} :
       OtherAsks(method, "/api/reload", g_csrfToken, TRUE, [name |-> "localhost", port |-> NoPort],
                 {}, site, size)

RequestNext ==
  \/ StartProgram
  \/ \E port \in Port : Configure(port)
  \/ NextRequest
  \/ request = NoRequest /\ SomeRequest

RequestSpec == RequestInit /\ [][RequestNext]_requestVars
-----------------------------------------------------------------------------
RequestTypeOK ==
  /\ configPort \in Port /\ g_httpPortBound \in Port /\ starts \in 1..MaxStarts
  /\ g_csrfToken \in 0..MaxStarts
  /\ page \in [token : 0..MaxStarts, port : Port \cup {NoPort}]

(* The routes that change something: of the program, of its configuration  *)
(* or of the machine.  A poll that takes the captured key is not counted.   *)
Changing == PostRoutes \ {"/api/v1/applications/test-resolve"}

FromPage == request # NoRequest /\ request.asker = "page" /\ g_csrfToken # NoToken

(***************************************************************************)
(* The list of paths and the routes are kept in two files, the token in    *)
(* the page may be of an earlier start, the configured port may have       *)
(* changed.  Together they let nothing change without the token of the     *)
(* running program, let a page read, and let it change what it may, unless *)
(* the program was started since or listens on the port that browsers do   *)
(* not write.                                                              *)
(***************************************************************************)
RequestsAreJudged ==
  /\ RequestTypeOK
  /\ answer = Served /\ request.method = "POST" /\ request.path \in Changing
       => request.token = g_csrfToken /\ g_csrfToken # NoToken /\ request.json
  /\ FromPage /\ request.method = "GET" => answer = Served
  /\ FromPage /\ g_httpPortBound # DefaultPort
       => answer = Served \/ request.token # g_csrfToken

(* A page is served as long as it is open (README.md: no manual refresh).  *)
OpenPageIsServed == FromPage => answer = Served
=============================================================================
