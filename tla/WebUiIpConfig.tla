--------------------------- MODULE WebUiIpConfig ---------------------------
(***************************************************************************)
(* The IP configuration of the device across the web API and a reboot:     *)
(*   - api_get_ipconfig_handler / api_post_ipconfig_handler and            *)
(*     get_tcpip_mutex (kc868_a16_application.c, webui_api part), which    *)
(*     read and write g_tcpip under the lazily created s_tcpip_mutex and   *)
(*     save it with NvTcpipStore;                                          *)
(*   - app_main (main.c), which loads g_tcpip from NVS at boot and brings  *)
(*     the interface up with DHCP or with the stored static address;       *)
(*   - got_ip_event_handler (main.c) and webui_init / webui_stop, which    *)
(*     start the HTTP server on every IP_EVENT_ETH_GOT_IP and register     *)
(*     the URI handlers a request is dispatched to.                        *)
(* esp_http_server runs every handler on its one server task, so a         *)
(* request is one atomic step. s_tcpip_mutex is static to the file and     *)
(* only these handlers take it, one at a time, so a take never times out;  *)
(* creating it may fail. An address string is abstracted to what           *)
(* ip_string_to_uint32 makes of it: 0 (empty or invalid) or a member of    *)
(* Val.                                                                    *)
(***************************************************************************)
EXTENDS Integers, FiniteSets

CONSTANTS
    Val,         \* the non-zero addresses a request may carry
    IpFields,    \* the static fields among ip_address, netmask, gateway
    DnsFields,   \* the DNS fields among dns1, dns2
    Absent       \* a JSON member that is missing or not a string / bool

ASSUME 0 \notin Val /\ Absent \notin Val \cup {0} /\ IpFields \cap DnsFields = {}

Fields == IpFields \cup DnsFields
Addr == Val \cup {0}

\* config_control & kTcpipCfgCtrlMethodMask.
Methods == {"static", "bootp", "dhcp"}

TcpipCfg == [method : Methods, addr : [Fields -> Addr]]

\* NvTcpipLoad fails when nothing was stored: then g_tcpip keeps the
\* OpENer defaults (DHCP, all zero) and main.c uses DHCP.
NoNvs == [method |-> "none", addr |-> [f \in Fields |-> 0]]
DefaultTcpip == [method |-> "dhcp", addr |-> [f \in Fields |-> 0]]

\* A POST body that cJSON_Parse accepted: use_dhcp is TRUE, FALSE or
\* Absent, every address member a parsed value or Absent.
Requests == [use_dhcp : BOOLEAN \cup {Absent}, addr : [Fields -> Addr \cup {Absent}]]

\* The answer a handler sends.
Responses == {"none", "ok", "400", "500"}

\* The URI handlers webui_init registers: GET /, GET /favicon.ico (the
\* page handlers, which change no state) and GET, POST /api/ipconfig.
Uris == {"root", "favicon", "get_ipconfig", "post_ipconfig"}

\* The interface as app_main configures it.
NetifCfg == [dhcp : BOOLEAN, addr : [Fields -> Addr]]

VARIABLES
    mutex,     \* s_tcpip_mutex != NULL
    creation,  \* s_tcpip_mutex_creation_mutex != NULL
    tcpip,     \* g_tcpip: method and interface_configuration
    nvs,       \* the record NvTcpipStore last saved, or NoNvs
    netif,     \* the configuration the interface was brought up with
    resp,      \* the response of the last request
    promised,  \* what the last 200 OK said was saved (history)
    server,    \* server_handle != NULL
    handlers   \* the URI handlers registered with the running server

vars == <<mutex, creation, tcpip, nvs, netif, resp, promised, server, handlers>>

TypeOK ==
    /\ mutex \in BOOLEAN /\ creation \in BOOLEAN
    /\ tcpip \in TcpipCfg
    /\ nvs \in TcpipCfg \cup {NoNvs}
    /\ netif \in NetifCfg
    /\ resp \in Responses
    /\ promised \in TcpipCfg \cup {NoNvs}
    /\ server \in BOOLEAN /\ handlers \subseteq Uris

---------------------------------------------------------------------------
(* app_main: load g_tcpip, then DHCP unless the stored method is static    *)
(* (a stored BOOTP method counts as not DHCP, as in the code).             *)
LoadedIgnoreStatus(n) == n

Loaded(n) == IF n = NoNvs THEN DefaultTcpip ELSE n

app_main_netif(n) ==
    IF n = NoNvs \/ n.method = "dhcp"
    THEN [dhcp |-> TRUE, addr |-> [f \in Fields |-> 0]]
    ELSE [dhcp |-> FALSE, addr |-> n.addr]

\* A reset: the static handles are NULL again, g_tcpip is reloaded.
app_main ==
    /\ mutex' = FALSE /\ creation' = FALSE
    /\ tcpip' = Loaded(nvs)
    /\ netif' = app_main_netif(nvs)
    /\ resp' = "none"
    /\ server' = FALSE /\ handlers' = {}
    /\ UNCHANGED <<nvs, promised>>

---------------------------------------------------------------------------
(* The HTTP server. httpd_start leaves server_handle NULL when it fails   *)
(* (no socket, no memory for its task); httpd_register_uri_handler        *)
(* answers ESP_ERR_HTTPD_HANDLERS_FULL once max_uri_handlers slots are     *)
(* taken, and webui_init ignores its result.                               *)
max_uri_handlersOneTooFew == 3

max_uri_handlers == 5

\* httpd_register_uri_handler on a server with the handlers hs.
RegisterUri(hs, u) == IF Cardinality(hs) < max_uri_handlers THEN hs \cup {u} ELSE hs

webui_register_api_handlers(hs) ==
    RegisterUri(RegisterUri(hs, "get_ipconfig"), "post_ipconfig")

\* webui_init: nothing if the server runs; otherwise httpd_start, then the
\* page handlers and the API handlers.
webui_init ==
    IF server THEN UNCHANGED <<server, handlers>>
    ELSE \E started \in BOOLEAN :
            /\ server' = started
            /\ handlers' = IF started
                           THEN webui_register_api_handlers(
                                    RegisterUri(RegisterUri({}, "root"), "favicon"))
                           ELSE {}

\* IP_EVENT_ETH_GOT_IP (the first lease, a renewal with a new address, the
\* static address): opener_init, whose code is not in this repository and
\* whose state is not modelled, then webui_init. s_eth_netif and its lwIP
\* netif are set by app_main before the handler is registered.
got_ip_event_handler ==
    /\ webui_init
    /\ UNCHANGED <<mutex, creation, tcpip, nvs, netif, resp, promised>>

\* webui_stop: httpd_stop drops the server with its handlers.
webui_stop ==
    /\ server
    /\ server' = FALSE /\ handlers' = {}
    /\ UNCHANGED <<mutex, creation, tcpip, nvs, netif, resp, promised>>

\* get_tcpip_mutex: create the creation mutex, then s_tcpip_mutex, once.
\* okC, okM: the xSemaphoreCreateMutex calls for the creation mutex and
\* for s_tcpip_mutex found memory. Result: [m, c] the two handles.
get_tcpip_mutex(okC, okM) ==
    IF mutex THEN [m |-> TRUE, c |-> creation]
    ELSE IF ~creation /\ ~okC THEN [m |-> FALSE, c |-> FALSE]
    ELSE [m |-> okM, c |-> TRUE]

\* GET /api/ipconfig: copy g_tcpip under the mutex; nothing is written.
api_get_ipconfig_handler ==
    \E okC, okM \in BOOLEAN :
        LET h == get_tcpip_mutex(okC, okM) IN
        /\ mutex' = h.m /\ creation' = h.c
        /\ resp' = IF h.m THEN "ok" ELSE "500"
        /\ UNCHANGED <<tcpip, nvs, netif, promised>>

\* The members the handler reads from the body: the static fields only when
\* g_tcpip was seen static or DHCP was not requested; DNS always.
ParsedAddr(r, isStatic) ==
    [f \in Fields |-> IF f \in DnsFields \/ isStatic \/ r.use_dhcp # TRUE
                      THEN r.addr[f] ELSE Absent]

\* The update applied under the second lock.
ApplyPost(cfg, r, parsed) ==
    LET m == IF r.use_dhcp = Absent THEN cfg.method
             ELSE IF r.use_dhcp THEN "dhcp" ELSE "static"
        base == [f \in Fields |->
                    IF r.use_dhcp = TRUE /\ f \in IpFields THEN 0 ELSE cfg.addr[f]]
    IN [method |-> m,
        addr |-> [f \in Fields |-> IF parsed[f] # Absent THEN parsed[f] ELSE base[f]]]

api_post_ipconfig_handlerStoreFirst(r) ==
    \E okC, okM, saved \in BOOLEAN :
        LET isStatic == mutex /\ tcpip.method = "static"
            h == get_tcpip_mutex(okC, okM)
            cfg == ApplyPost(tcpip, r, ParsedAddr(r, isStatic))
        IN
        /\ mutex' = h.m /\ creation' = h.c
        /\ IF h.m
           THEN /\ tcpip' = cfg
                /\ nvs' = IF saved THEN tcpip ELSE nvs
                /\ resp' = IF saved THEN "ok" ELSE "500"
                /\ promised' = IF saved THEN cfg ELSE promised
           ELSE /\ resp' = "500"
                /\ UNCHANGED <<tcpip, nvs, promised>>
        /\ UNCHANGED netif

\* POST /api/ipconfig with a body that parsed. The mode is read under the
\* 100 ms take only if s_tcpip_mutex exists already; okC, okM: mutex
\* creation found memory; saved: NvTcpipStore returned kEipStatusOk.
api_post_ipconfig_handler(r) ==
    \E okC, okM, saved \in BOOLEAN :
        LET isStatic == mutex /\ tcpip.method = "static"
            h == get_tcpip_mutex(okC, okM)
            cfg == ApplyPost(tcpip, r, ParsedAddr(r, isStatic))
        IN
        /\ mutex' = h.m /\ creation' = h.c
        /\ IF h.m
           THEN /\ tcpip' = cfg
                /\ nvs' = IF saved THEN cfg ELSE nvs
                /\ resp' = IF saved THEN "ok" ELSE "500"
                /\ promised' = IF saved THEN cfg ELSE promised
           ELSE /\ resp' = "500"
                /\ UNCHANGED <<tcpip, nvs, promised>>
        /\ UNCHANGED netif

\* POST whose body httpd_req_recv could not read (500) or cJSON_Parse
\* rejected (400): nothing changes.
api_post_ipconfig_rejected ==
    /\ \E code \in {"400", "500"} : resp' = code
    /\ UNCHANGED <<mutex, creation, tcpip, nvs, netif, promised>>

Init ==
    /\ mutex = FALSE /\ creation = FALSE
    /\ nvs \in TcpipCfg \cup {NoNvs}
    /\ tcpip = Loaded(nvs)
    /\ netif = app_main_netif(nvs)
    /\ resp = "none"
    /\ promised = nvs
    /\ server = FALSE /\ handlers = {}

\* The server task dispatches a request to the handler registered for it.
Dispatch(u, handler) ==
    /\ u \in handlers
    /\ handler
    /\ UNCHANGED <<server, handlers>>

Next ==
    \/ app_main
    \/ got_ip_event_handler
    \/ webui_stop
    \/ Dispatch("get_ipconfig", api_get_ipconfig_handler)
    \/ \E r \in Requests : Dispatch("post_ipconfig", api_post_ipconfig_handler(r))
    \/ Dispatch("post_ipconfig", api_post_ipconfig_rejected)

Spec == Init /\ [][Next]_vars

---------------------------------------------------------------------------
(* Properties. *)

\* While webui_init's server runs, it serves GET and POST /api/ipconfig:
\* every handler webui_init registers found a free slot among
\* max_uri_handlers, although nothing checks the results and a later
\* GOT_IP never registers again.
ApiServedWhileRunning == server => Uris \subseteq handlers

\* After a reboot, GET reports and the interface runs what the last POST
\* that answered 200 OK saved: DHCP iff it said use_dhcp, else its static
\* addresses. This needs the save of api_post_ipconfig_handler, NvTcpipLoad
\* and the DHCP / static choice of app_main to agree.
RebootRunsSavedConfig ==
    [][app_main =>
         LET s == Loaded(promised) IN
         /\ tcpip' = s
         /\ netif'.dhcp = (s.method = "dhcp")
         /\ ~netif'.dhcp => \A f \in IpFields : netif'.addr[f] = s.addr[f]
      ]_vars

\* The comment of api_post_ipconfig_handler: the current config_control
\* determines whether the static fields of the body are parsed. A request
\* that switches a static device to DHCP and also names an address keeps it.
PostFollowsCurrentMode ==
    [][\A r \in Requests, f \in IpFields :
         (/\ api_post_ipconfig_handler(r) /\ resp' = "ok"
          /\ tcpip.method = "static" /\ r.use_dhcp = TRUE /\ r.addr[f] # Absent)
         => tcpip'.addr[f] = r.addr[f]
      ]_vars

\* A POST that answers "Failed to save IP configuration" leaves the
\* configuration GET reports as it was.
FailedPostChangesNothing ==
    [][\A r \in Requests :
         (api_post_ipconfig_handler(r) /\ resp' = "500") => tcpip' = tcpip
      ]_vars
=============================================================================
