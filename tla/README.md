# TLA+ models of the KC868-A16 EtherNet/IP adapter

These modules model the parts of this firmware where behaviour depends on
the order of events, on timers, or on failures:

- the IPv4 Address Conflict Detection engine (RFC 5227), which OpENer
  modified in lwIP (`src/components/lwip/lwip/src/core/ipv4/acd.c`);
- the web API that reads and writes the device's IP configuration
  (`kc868_a16_application.c`, `get_tcpip_mutex`, `api_*_ipconfig_handler`);
- the boot code that applies the stored configuration (`src/main/main.c`, `app_main`);
- the I/O application: the EtherNet/IP assemblies, the PCF8574 expanders
  behind the I2C manager, and the ADC (`kc868_a16_application.c`,
  `src/components/i2c_manager/i2c_manager.c`).

`PROJECT.json` lists the components, runs, mutants, findings and hazards, and
maps every modelling definition to the source lines it translates.

## The system and how its parts interact

| Part | Source | State | Operations | Interacts with |
|---|---|---|---|---|
| ACD engine | acd.c | `netif->acd_list`, one `struct acd` per client (state, ipaddr, sent_num, ttw, lastconflict, num_conflicts), the last conflicting frame kept for the TCP/IP object | acd_add, acd_remove, acd_start, acd_stop, acd_network_changed_link_down, acd_tmr (every ACD_TMR_INTERVAL), acd_arp_reply (every ARP frame), acd_netif_ip_addr_changed | DHCP, AutoIP and static clients through callbacks (IP_OK, DECLINE, RESTART_CLIENT); etharp for probes and announcements |
| Web IP config API | kc868_a16_application.c 612-954 | `g_tcpip` (method and addresses), `s_tcpip_mutex` and its creation mutex (created lazily), NVS | GET /api/ipconfig, POST /api/ipconfig | the OpENer task, which shares `g_tcpip`; NVS; the next boot |
| Boot | main.c `app_main` | the interface configuration | NvTcpipLoad, then DHCP or static | NVS written by the web API |
| I/O application | kc868_a16_application.c 44-338 | the input and output assembly buffers, `s_pcf8574_initialized`, `s_adc_initialized`, four PCF8574 handles | ApplicationInitialization, AfterAssemblyDataReceived, BeforeAssemblyDataSend | OpENer, which calls it; the I2C manager and the PCF8574 expanders, whose latches outlive an ESP32 restart |
| I2C manager | i2c_manager.c | `s_initialized`, `s_bus_freq_hz`, the bus | i2c_manager_init, i2c_manager_deinit | the PCF8574 driver |
| Web UI HTTP server | kc868_a16_application.c 450-588, main.c `got_ip_event_handler` | `server_handle`, the registered URI handlers | webui_init on every IP_EVENT_ETH_GOT_IP, webui_stop | esp_http_server, which dispatches requests to the registered handlers |
| Desktop and Python tools | see PROJECT.json | — | — | — (not modelled) |

All lwIP entry points of the ACD engine run under the lwIP core lock: the
timer, ARP input and client calls never overlap. Each one is therefore a
single atomic action. What makes the engine hard is everything else:

- two contexts (DHCP and AutoIP) on one list, each fed the same ticks and frames;
- arbitrary ARP traffic arriving at any point of the probe, announce and
  defend phases;
- clients that stop, remove, restart or demote a context at any time;
- random jitter in the timing.

esp_http_server runs every handler on a single task, so one HTTP request is
one atomic step. The failures inside a request are modelled as nondeterministic
outcomes:

- the body cannot be received, or does not parse as JSON;
- the mutex cannot be created. `s_tcpip_mutex` is static to the file and
  only these handlers take it, one at a time on the server task, so a take
  never times out;
- NvTcpipStore fails.

## Modules

### `Acd.tla`: the ACD engine

- **Constants.** `Ctx` (the contexts), `Addr`, `StartAddr[c]` (the addresses
  c's client passes to `acd_start`), `LinkLocal`, `ANY`, `Mac`, `OwnMac`, the
  Kconfig timing in milliseconds, `MAX_CONFLICTS`, `RATE_LIMIT_INTERVAL`,
  `DEFEND_INTERVAL`, and the bound `MaxStarts`.
- **Timing.** The timing macros of the custom-timing build are operators:
  - `OPENER_ACD_MS_TO_TICKS` is a ceiling division followed by the u16_t cast (`% 65536`);
  - `ACD_RANDOM_PROBE_WAIT` and `ACD_RANDOM_PROBE_INTERVAL` are the *sets* of
    values that the modulo of a random u32 can produce, and a step draws from
    them with `\E`.
- **State.**
  - `acd[c]` is a record with exactly the fields of `struct acd` that the code
    changes;
  - `listed` is the list `netif->acd_list`;
  - `lastAcd` is the frame passed to `CipTcpIpSetLastAcdRawData`;
  - `cb[c]` and `tx[c]` are the callbacks delivered to c and the frames c
    sent, in the last step.
- **Per-context steps.** Each of these is a pure operator returning the new
  struct and its outputs:
  - `acd_restart`, `acd_handle_arp_conflict`, `acd_put_in_passive_mode`;
  - one `acd_arp_reply` iteration (`ArpReplyAcd`, with the conflict rule `Conflicts`);
  - one `acd_tmr` iteration (`TmrAcd`, built from `TmrCountdown`, `TmrProbe`,
    `TmrAnnounce`, `TmrPeriodicDefend`, `TmrRateLimit`).
- **Actions.** One per entry point:
  - `acd_tmr` and `acd_arp_reply` apply their step to every listed context at
    once (`ApplyListed`), as `ACD_FOREACH` does inside one locked call;
  - `acd_remove` leaves the struct's fields as they are;
  - `acd_start` does not reset `num_conflicts` and does not require the
    context to be listed;
  - `acd_stop` only sets OFF. All of this is as in the code.
- **History variables.** These are read only by properties:
  - `since` counts probes, announcements and IP_OK since the last
    `acd_start`, and marks an attempt that saw an RFC 2.1.1 conflict while probing;
  - `defendAge` and `declineAge` count the ticks a context received since it
    last defended or declined;
  - `streak` counts restarts since the context last began announcing;
  - `awaitRestart` marks a DECLINE still waiting for its RESTART_CLIENT.

  The RFC rules are restated in `RfcProbeConflict` and `RfcClaimConflict`,
  independently of the code's `Conflicts`.

### `MCAcd.tla`

Gives the model values and definitions for the contexts, addresses and MACs:
one DHCP context for `MCAcd.cfg`, the DHCP and the AutoIP context for
`MCAcdTwo.cfg`.

### `MCAcdTiming.tla`

Extends Acd with a ghost `elapsed[c]`, the number of acd_tmr iterations c has
received since `acd_start`. It runs the RFC defaults of spec.md 4.1 with a
100 ms tick.

### `WebUiIpConfig.tla`: the web API and boot

- **State.**
  - `g_tcpip` is a record: the method (static, BOOTP or DHCP) and the
    addresses;
  - `mutex` and `creation` are whether the two static semaphore handles
    are non-NULL;
  - `nvs` is the record last saved;
  - `netif` is what `app_main` configured;
  - `resp` is the last response;
  - `server` is whether `server_handle` is non-NULL, and `handlers` is the
    set of URI handlers registered with it.
- **Abstractions.**
  - An address string is replaced by what `ip_string_to_uint32` makes of it:
    0, or a value of `Val`.
  - The static fields are `IpFields`: ip_address, netmask and gateway. The DNS
    fields are `DnsFields`. Each group is parsed and applied under the same
    condition, so the MC uses one field of each.
- **Actions.**
  - `api_get_ipconfig_handler`;
  - `api_post_ipconfig_handler(r)`, the whole handler with its outcomes: the
    mode read under the first lock (only if the mutex already exists),
    `get_tcpip_mutex` (its creation may fail), the update under the second
    lock, and NvTcpipStore;
  - `api_post_ipconfig_rejected`, a body that cannot be received or parsed;
  - `app_main`, a reset and boot, which also drops the server;
  - `got_ip_event_handler`, an IP_EVENT_ETH_GOT_IP at any time. It calls
    `opener_init`, which is outside `src/` and not modelled, and then
    `webui_init`. `webui_init` does nothing while the server runs.
    Otherwise `httpd_start` may fail and leave `server_handle` NULL. On
    success it registers four handlers through `RegisterUri`, which fails
    once `max_uri_handlers` slots are taken, as
    `httpd_register_uri_handler` does. Its results are ignored.
  - `webui_stop`. This firmware never calls it.
  - A request reaches a handler only through `Dispatch`, which requires the
    handler to be registered.
- **Init.** Any stored configuration, or none, and no server.

### `AcdAbstract.tla`: what a context promises its client

Each context is in one of five phases: idle, claiming (probing or
announcing), held, passive, backoff (rate limited). `Moves` lists every
change of phase together with the callbacks it may deliver in the same step:
only claiming → held says IP_OK; a loss of the address says DECLINE, or
DECLINE and RESTART_CLIENT; backoff ends with RESTART_CLIENT. The fairness
says that a listed context that stays claiming or backing off eventually
settles. It is written out as `<>[]Unsettled(c) => []<><<Settle(c)>>_avars`,
which is weak fairness with ENABLED worked out, because TLC cannot compute
ENABLED through a refinement mapping.

`Acd` implements it (`AcdRefinesAbstract`): the mapping keeps `listed`, maps
`acd[c].state` to its phase (`AbsPhase`) and `cb` to `said`.

The promise is deliberately permissive. It says which callbacks a change of
phase may deliver, not that a DECLINE is followed by its RESTART_CLIENT: a
context that leaves backoff for idle (stopped, removed or demoted) without
RESTART_CLIENT is a step it allows. That obligation is the separate
`RestartEventuallyReported` of `Acd`, which releases such a context too.

### `AcdHosts.tla`: two devices on one segment

Two devices, each running acd.c with one context (the client of its
address), on an Ethernet segment.

- **Engine.** `Engine(h) == INSTANCE Acd WITH OwnMac <- h, ...` reuses Acd's
  per-context operators (`TmrAcd`, `ArpReplyAcd`) for host `h`. Acd's other
  variables are not used and are substituted by constants.
- **State.** `acd[h]` is host h's `struct acd`. `net` is the bag of frame
  copies in flight. A broadcast request has one copy per other host; an
  ARP reply has one copy, for the requester's MAC. `lost` counts lost frames, `starts` counts `acd_start` calls, and
  `claim[h]` records h's last attempt: whether the other host held the
  address then, how many frames had been lost, and whether IP_OK came.
- **Actions.**
  - `Start` is `acd_start` (acd.c 312–341).
  - `Tick` is `acd_tmr` (379–400 with the per-state cases of Acd). It puts
    the probe or announcement the step sent on the wire.
  - `Receive` is etharp_input: `acd_arp_reply` (674–780), then the ARP reply
    that etharp sends for a request to the address the interface holds.
    The interface holds it exactly while the context is ONGOING, because
    the client binds on IP_OK and unbinds on DECLINE.
  - `Lose` drops a frame, at most MaxLoss times. `Duplicate` delivers a
    frame twice, at most MaxDup times. Frames in the bag are delivered in
    any order.
- **Environment assumptions.**
  - A tick runs only when no frame is in flight: the segment's latency is
    far below ACD_TMR_INTERVAL. This is a synchrony assumption the code
    does not enforce: a frame that arrives after the next tick (a loaded
    switch, a host busy for 100 ms) is not modelled, so neither property
    covers a conflict reply that overtakes the receiver's next probe
    step.
  - A client starts again only when no frame is in flight: clients retry an
    address from their own timers, seconds later.
  - etharp itself is lwIP code outside `src/`; only the behaviour above is
    modelled.

`MCAcdHosts.tla` instantiates it with two hosts and two addresses.

### `MCAcdWrap.tla`

Starts a context with `num_conflicts` at 65535 and `streak` at MAX_CONFLICTS,
a state 65535 conflicts without an announce reach, to check the 16-bit wrap
(`NUM_CONFLICTS_WRAP`; spec.md section 3 gives the field as u16).

### `Kc868Io.tla`: the I/O application and the I2C manager

- **Data.** Two input and two output expanders (each stands for one of the
  two bytes of its kind; both bytes of an assembly are handled by identical
  code), four analog channels. A PCF8574 read is a byte pattern of the
  terminals pulling low, or `Fail`; an ADC read is a value of `Raw` or
  `Fail`.
- **State.** Everything static in the file (`Booted`), the I2C manager's
  `s_initialized` and `s_bus_freq_hz`, the number of `pcf8574_init` attaches
  per expander, and the hardware: `latch[e]`, the PCF8574 output register.
  A port reads low where its latch bit is 0 or a terminal pulls it low
  (`PinLevels`).
- **Actions.**
  - `ApplicationInitialization`, with `InitializeI2C` (the early return when
    initialised, `i2c_manager_init`, `pcf8574_scan`, whose 0xFF probe byte
    to each expander may fail and whose result only selects log lines, the
    four `pcf8574_init` calls stopping at the first failure, the 0xFF
    writes that may each fail) and
    `InitializeAdc`;
  - `AfterAssemblyDataReceived` (UpdateOutputs then UpdateInputs) and
    `BeforeAssemblyDataSend` (UpdateInputs), with the inversion of active-low
    pins, the zeroing on a failed read, the clamp to 4095 and
    `StoreAnalogValue`'s byte split, written with `Bitwise`;
  - `i2c_manager_deinit`;
  - `Restart`: an ESP32 reset (the statics are zero again, the latches keep
    their value) or a power cycle (the latches come up 0xFF).
- **History.** The last reads and samples, the bits any output assembly of
  this boot set, and whether each output expander's last write succeeded.

## Runs

| Run | cfg | Expect | What it shows |
|---|---|---|---|
| acd_one | MCAcd.cfg | pass | The RFC rules and liveness hold for one context that may start on a routable or a link-local address. Everything else may happen in any order: arbitrary frames from our own or a foreign MAC, stops, removals, link downs and demotions. |
| acd_two | MCAcdTwo.cfg | pass | The DHCP and the AutoIP context on one list, each seeing the other's ticks and frames, implement `AcdAbstract`, safety and fairness. The per-context safety rules are checked by acd_one: contexts share only ticks and frames, and the engine classifies a frame for each context independently. |
| acd_timing | MCAcdTiming.cfg | pass | With the defaults, every jitter choice reaches ONGOING within the 11000 ms (110 ticks) of spec.md section 8. The worst case is 79 ticks. |
| acd_timing_early | MCAcdTimingEarly.cfg | violation | IP_OK arrives 6100 ms after `acd_start`. spec.md says never before 9000 ms. |
| webui_reboot | MCWebUiIpConfig.cfg | pass | Across any GET/POST sequence, with any of their failures, a reboot runs the configuration that the last 200 OK saved. The server started on GOT_IP serves both /api/ipconfig handlers while it runs (3,250 states). |
| webui_mode_read | MCWebUiModeRead.cfg | violation | The first POST after boot does not see that the device is static. |
| webui_save_fail | MCWebUiSaveFail.cfg | violation | A failed save answers 500 but keeps the change in `g_tcpip`. |
| acd_wrap | MCAcdWrap.cfg | violation | After 65535 conflicts `num_conflicts` wraps to 0 and the rate limit is skipped. |
| kc868_io | MCKc868Io.cfg | pass | Relays follow the output assembly wherever the application wrote them, and inputs report the terminals, across partial initialisation, failed transfers and restarts. |
| kc868_analog | MCKc868Analog.cfg | pass | Every ADC reading, or 0 on failure, is stored little-endian in its channel's two bytes. |
| kc868_relays_off | MCKc868IoRelaysOff.cfg | violation | A relay energised before an ESP32 restart stays on after it when both the scan's 0xFF byte and the 0xFF write to its expander fail. |
| acd_hosts | MCAcdHosts.cfg | pass | Two devices running acd.c on a segment that loses, duplicates and reorders frames: a newcomer does not take a held address, and a duplicate address is eventually resolved. |

The properties are as follows:

- **IpOkAfterFullProtocol.** IP_OK comes at most once per start, and only
  after PROBE_NUM probes and ANNOUNCE_NUM scheduled announcements.
- **NoIpOkAfterProbeConflict.** An attempt that saw an RFC 2.1.1 conflict
  while probing never reports IP_OK.
- **DefendOnceThenRetreat.** A conflict in ANNOUNCING or ONGOING makes the
  context decline exactly when it already defended within DEFEND_INTERVAL.
  Otherwise it announces once and keeps the address.
- **RateLimitHonoured.** After MAX_CONFLICTS restarts without announcing,
  RESTART_CLIENT comes only RATE_LIMIT_INTERVAL after the decline.
- **RestartEventuallyReported** (liveness). A DECLINE from `acd_restart` is
  followed by RESTART_CLIENT, unless the client stops, restarts, removes or
  demotes the context first.
- **ProbingEnds** (liveness). A listed context leaves the probe phase.
- **IpOkWithinSpecMaximum and IpOkNotBeforeSpecMinimum.** The two timing
  bounds of spec.md section 8.
- **ApiServedWhileRunning.** While the server runs, all four handlers are
  registered. `max_uri_handlers` (5) leaves room for them, and nothing
  else would notice if it did not: no result is checked and no later
  GOT_IP registers again. The mutant sets the limit to 3.
- **RebootRunsSavedConfig.** After a reboot, GET and the interface agree with
  the last successful POST.
- **PostFollowsCurrentMode and FailedPostChangesNothing.** Two findings
  below.
- **AcdRefinesAbstract.** `Acd` implements `AcdAbstract`.
- **RelaysFollowOutputAssembly.** Once the expanders are initialised, an
  output expander whose last write succeeded drives exactly the inverse of
  its output assembly byte.
- **InputsReportTerminals.** Each input byte is the pattern of terminals
  that were active at the last read, or 0 if that read failed. This needs the
  inversion and the 0xFF written to the input expanders: a latch bit at 0
  would read as an active terminal.
- **AnalogEncodesReading.** Byte pairs of the input assembly decode to the
  last sample of their channel.
- **IncumbentProtected.** A device that starts on an address another
  device holds never gets IP_OK for that attempt while the segment loses at
  most PROBE_NUM frames. The holder must not have defended within
  DEFEND_INTERVAL: if it had, it retreats on the first announcement, as the
  defend-once rule says. With three losses both probes and the first
  announcement can vanish, and the newcomer wins; RFC 5227 accepts this.
- **DuplicateResolved** (liveness). Two devices that both hold one address
  do not keep holding it forever. The periodic defensive probe of the
  ONGOING case draws a reply from the other device, and the defend-once
  rule makes one of them give the address up.
- **RelaysOffUntilCommanded.** No relay is energised that no output assembly
  of this boot asked for (a finding below).

Every property of a passing run has a mutant in `PROJECT.json` that breaks it.
A mutant is a plausible bug of the mapped code: for example, the
probe-counter reset dropped, the probe-for-our-address rule missing,
`lastconflict >= 0`, `>` instead of `>=` against MAX_CONFLICTS, the
RESTART_CLIENT callback after RATE_LIMIT missing, ANNOUNCE_WAIT read as
seconds, or the NVS store done before the update.

## Bounds and why they are enough

- **`MCAcd.cfg`.**
  - One context with a 500 ms tick. Probe wait, probe interval, announce wait
    and interval, defend window and rate limit are 1–3 ticks each, so every
    countdown is exercised both at zero and while running.
  - The jitter sets have two values.
  - MAX_CONFLICTS = 2 with MaxStarts = 3, so the rate limit is reached.
    Reaching it needs restarts during probing both without and with an
    intervening announcement.
  - Addresses: one routable and one link-local, so demotion happens.
  - MACs: our own and a peer's, so frames from ourselves are exercised.
  - 6,220 distinct states.
- **`MCAcdTwo.cfg`.**
  - Two contexts. DHCP only starts the routable address and AutoIP only the
    link-local one.
  - The tick is 1000 ms with no jitter, and MaxStarts = 2.
  - Frames come only from the peer.
  - Liveness and the per-context safety rules are left to the one-context
    run, which has the same per-context steps; this run checks the
    refinement only.
- **`MCAcdHosts.cfg`.**
  - Two hosts and two addresses: the conflict needs one, and the second
    lets a client that lost move to another address, as a DHCP client
    does after a DECLINE.
  - The 1000 ms tick without jitter. PROBE_NUM and ANNOUNCE_NUM are 2, the
    periodic defend is 2 ticks, and the defend window and rate limit are
    1 tick each.
  - MaxStarts = 2 per host, so a host retries after losing.
  - MaxLoss = 4. Both properties need more than PROBE_NUM losses to be
    interesting: three let a newcomer through to a duplicate, and the
    duplicate must survive a lost defensive probe.
  - MaxDup = 1. `acd_handle_arp_conflict` counts frames, so one duplicate
    is already a second conflict within DEFEND_INTERVAL.
  - 328,975 distinct states, about 45 seconds.
- **`MCAcdWrap.cfg`.** `MCAcd.cfg`'s constants from the wrap state.
- **`MCKc868Io.cfg`.**
  - Terminal patterns {0, 1} with `Fail`: a pattern that the inversion turns
    into 0xFE, and one that shows the latch.
  - `Raw = {0}`: the analog data is checked by its own run.
  - MaxBoots = 2: restarts and power cycles with relays on.
  - MaxInits = 1: `ApplicationInitialization` once per boot. Whether
    `opener_init`, which runs on every GOT_IP event, calls it again is
    OpENer code outside `src/`; a second call after a partial init is
    listed as a hazard.
  - 4,887 states, about a minute: the Bitwise operators are recursive.
- **`MCKc868Analog.cfg`.** No digital variation, no restart;
  `Raw = {Fail, 4095}`: the failure and the full 12-bit value, whose two
  bytes are both non-zero.
- **`MCAcdTiming.cfg`.**
  - The real defaults with one context and no foreign frames: the scenario of
    spec.md.
  - The probe interval draws from 10 values, the whole jitter range.
  - `elapsed` is capped at 120 ticks, above the 110-tick bound.

Larger sets add only symmetric copies: contexts are independent except for
sharing ticks and frames, and a third address behaves like the second.

## Fairness

In Acd the only fairness is `WF_vars(acd_tmr)`. The lwIP timeout thread calls
`acd_tmr` every ACD_TMR_INTERVAL, whatever the clients do. Clients and the
network are under no obligation: they may send frames or stop contexts
forever, and the liveness properties hold only because they do not rely on
them. AcdHosts adds weak fairness of each host's `etharp_input` for the
frames in flight: a netif hands every received frame to etharp. The clients,
the losses and the duplicates have no fairness. Kc868Io has no fairness and
no liveness property: its actions run when OpENer calls them, which is
outside `src/`.

## Findings

1. **spec.md section 8 lower bound.** spec.md says IP_OK comes no earlier
   than 9000 ms. The code delivers it at 6100 ms with the defaults. It waits
   PROBE_WAIT (0), sends the first probe on the first tick, waits only
   *between* probes (2 × 1000 ms minimum), then ANNOUNCE_WAIT (2000 ms), and
   calls IP_OK with the second announcement after one interval (2000 ms).
   The same section's upper bound sum, 1000+3·2000+2000+2·2000, is 13000 and
   not the 11000 it states. The code meets even 11000.
2. **First POST after boot** (kc868_a16_application.c:816). `s_tcpip_mutex`
   is created lazily, after `is_static_ip` is read. The first POST therefore
   treats a static device as non-static and drops
   ip_address/netmask/gateway sent with `use_dhcp: true`. The same request
   after any GET keeps them.
3. **Failed NVS save** (kc868_a16_application.c:901). `g_tcpip` is changed
   before NvTcpipStore and is not restored when the store fails. GET and CIP
   then report a configuration that a reboot reverts.

4. **num_conflicts wraps** (acd.c:646). After 65535 conflicts without an
   announcement the u16 counter is 0 again, and the next decline restarts
   the client at once instead of after RATE_LIMIT_INTERVAL.
5. **Relays stay on after a restart** (kc868_a16_application.c:139). The
   PCF8574 keeps its latch across an ESP32 reset, and the boot turns a
   relay off only by a successful transfer of 0xFF: the probe byte of
   `pcf8574_scan` (part_006:236–239) or the write after the four
   `pcf8574_init` calls. When `i2c_manager_init` fails, both are skipped.
   When the scan's transfer to an output expander fails and then either a
   `pcf8574_init` fails (InitializeI2C returns, and UpdateOutputs never
   writes in this boot) or the 0xFF write fails (it is not retried), the
   relays of the previous boot stay energised against the comment "all
   relays OFF". The scan's result only selects log lines, so its failure
   does not stop the boot either.

## What is not modelled

- **The ACD clients, etharp and `struct acd`'s declaration.**
  - The DHCP, AutoIP and static clients and etharp are lwIP code outside
    `src/`. Acd lets them act arbitrarily and records the callbacks.
    AcdHosts models etharp only as the environment described above.
  - `struct acd` is declared in `lwip/prot/acd.h`, also outside `src/`, so its
    field widths are not in the repository; `num_conflicts` is u16 as
    spec.md section 3 says.
- **The build without CONFIG_OPENER_ACD_CUSTOM_TIMING.** This build does not
  compile: `ACD_PERIODIC_DEFEND_INTERVAL_TICKS` (acd.c 212–216) is defined
  only inside the custom-timing branch, but acd.c 548 uses it always. A model
  checker cannot show this; the runs cover the custom-timing build only.
- **Logging.** This covers the triple error logging of a failed probe send and
  `acd_log_mac`. Neither changes state.
- **The page handlers, the WinUI client and the Python tool.**
  - `root_handler` and `favicon_handler` send a constant page or a 404 and
    change no state; a request to them is not an action.
  - The WinUI client and the Python tool are not firmware (see PROJECT.json).
- **Whether GOT_IP comes again.** After a failed `httpd_start` the web UI
  stays down until the next GOT_IP. esp_netif and the DHCP client, outside
  `src/`, decide whether it comes, so no liveness property is stated.
- **ResetDevice and the connection callbacks** of the I/O application call
  OpENer code outside `src/`. `part_007`, an older copy of the application
  without the ADC, is not modelled separately.
- **The OpENer task's own use of `g_tcpip` and the `opener_init` re-run on
  every GOT_IP.** That code is not in `src/`.

## Possible extensions

1. A third device in `AcdHosts`. The module is written for any number of
   hosts, but with three hosts and one address TLC had found over 5
   million distinct states, and no violation, when it was stopped after
   10 minutes.
2. A second `ApplicationInitialization` per boot (`MaxInits = 2`), once
   OpENer's `opener_init` says whether it calls it again on a new GOT_IP.
