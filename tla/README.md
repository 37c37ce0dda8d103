# TLA+ models of the Codion MCP STDIO-to-HTTP bridge

The repository ships a small Python program that sits between an MCP
client (for example a desktop assistant that speaks JSON-RPC over a child
process's stdin and stdout) and the Codion Swing MCP plugin, an HTTP server
running inside a Codion application. This directory holds TLA+ models of that
program, TLC configurations that check them, and TLAPS proofs.

## Inventory of the system

| Part | Source | State | Operations |
|---|---|---|---|
| Tools bridge, `MCPBridge` | `src/tools/swing/mcp/src/main/python/mcp_bridge.py` (307 lines) | `base_url`, `connected`, the stdin position, the stdout written | `check_server_connection` (GET /status); the `run` loop: readline, EOF, blank line, malformed JSON, non-object JSON, notification, `initialize`, `tools/list`, `tools/call`, unknown method, generic `except`, `KeyboardInterrupt`; `make_request` with `urlopen(timeout=10)`; the image, JSON and text response builders |
| Plugin bridge | `src/plugins/swing-mcp/src/main/python/mcp_bridge.py` (168 lines) | the same | the same loop; `urlopen` without a timeout; no `"error"` check in `initialize` or `tools/call`; capabilities rewritten only when they are a dict, keeping the truthy entries |
| Test client | `src/plugins/swing-mcp/src/main/python/test_mcp_client.py` (219 lines) | a console dialogue | single HTTP calls to the tool server, printed |
| MCP client and tool server | outside the repository | — | write lines and close stdin; answer HTTP calls |

How the parts interact: the client writes one JSON-RPC message per line to
the bridge's stdin. The bridge is one thread. It reads a line, and for the
three routed methods it makes one blocking HTTP call to the tool server. It
then writes at most one response line to stdout. There is no concurrency
inside the bridge. The hard behaviours come from its two neighbours. The
client may write any line, with any id, and may close stdin at any time.
The server may fail, may time out, or may answer with a body of any JSON
shape. The bridge also has its own exception paths, which drop a line
silently.

## Modules

- `BridgeData` holds the values that flow through the bridge, abstracted to
  what its control flow tells apart.
  - An input line is one of four kinds: empty, malformed, a JSON non-object,
    or an object. An object line carries a method, which is either one of the
    three routed methods or `unknown`.
  - An id is a model value, `absent` (no key), or `null` (an explicit JSON
    null).
  - params are an object with a tool name, or a non-object.
  - An upstream reply is one of three: `ErrorReply`, standing for every
    `{"error": ...}` that `make_request` returns; `NonObjectReply`, a body that
    is a list or a scalar; or an object whose relevant field (capabilities,
    tools, content) has one of the shapes the handlers tell apart.
  - A response carries its id, its result or error, and two history fields:
    `line`, the stdin index it answers, and `up`, the upstream reply it was
    built from. These fields exist only for stating properties.
- `Bridge` is the tools bridge, `MCPBridge`, with the client and server
  around it.
  - Variables:
    - `stdin` is every line written so far.
    - `closed` is EOF.
    - `pos` is the number of lines `run` has read.
    - `phase` is `connecting`, `idle` (at readline), `waiting` (inside
      `make_request`), `stopped` (`run` returned) or `exited` (`sys.exit(1)`).
    - `connected` is `self.connected`.
    - `stdout` is the responses the client has received.
    - `outClosed` says the client has closed its end of the bridge's stdout.
    - `unflushed` says `sys.stdout`'s buffer still holds a response whose
      flush failed.
  - Each loop iteration is one action; the HTTP call splits it in two.
    - `CheckServerConnection`.
    - `ReadEOF`.
    - `SkipEmptyLine`.
    - `DropMalformedLine`.
    - `DropRaisingLine`: `msg.get` on a non-object, or `params.get` on
      non-object params, reaches the generic `except`.
    - `HandleNotification`, taken when `msg_id is None`.
    - `UnknownMethod`, which answers -32601.
    - `CallServer`, which reads a routed request and blocks.
    - `CompleteCall(r)`: the handler builds its response from the server reply
      `r`, and `print` writes it.
    - `PrintResponse(response)` is the `print(..., flush=True)` that `CompleteCall`
      and `UnknownMethod` end with. Either the line reaches the client, or,
      once the client has closed the pipe, `BrokenPipeError` is raised and
      swallowed by the generic `except`, and the line stays buffered.
    - `HandlerFault(r)`: the handler raises on `r`, and the generic `except`
      drops the request.
    - `Interrupt`: `KeyboardInterrupt`.
  - The client has three actions: `Send(l)`, `Close`, and `Hangup`, which
    closes its end of stdout.
  - `ExitStatus` is the status the process exits with once `run` has
    returned. It is 120 when the interpreter's final flush of `sys.stdout`
    fails, and 0 otherwise.
  - The handlers are operators: `InitializeResult`, `ToolCallResult`,
    `MimeSubtype`, `HandlerResponse` and `HandlerRaises`.
- `MCBridge` instantiates `Bridge` for TLC. There are two ids, as model
  values. There are three tool names: the two screenshot tools and one other.
  The empty default name stands for every other tool.
- `PluginBridge` is the plugin's bridge (`src/plugins/swing-mcp/src/main/python/mcp_bridge.py`,
  a single `main()` function). It is written over the same `BridgeData` and
  has the same shape as `Bridge`, with `connected` dropped: the plugin keeps
  no such flag. Where the two bridges differ, the model follows the plugin's
  lines:
  - `CheckServer`: only an `"error"` key stops it. A non-object body makes
    `"error" in status` fail or pass depending on its type, so both outcomes
    are allowed.
  - `DropRaisingLine` also covers empty lines, because `json.loads("")`
    raises.
  - `urlopen` has no timeout. `ServerAnswers`, the server's reply to a
    pending call, is its own disjunct of `Next`, with no fairness.
  - `InitializeResult` rewrites capabilities only when they are a dict, each
    truthy key becoming `{}`; any other value, booleans included, passes
    through. It has no `"error"` check.
  - `ToolCallResult` has no `"error"` check. An error reply becomes a text
    block, a successful result.
  - `ListError` returns -32603 for an `"error"` from `tools/list`.
- `MCPluginBridge` instantiates `PluginBridge` with the same constants as
  `MCBridge`.
- `Dispatcher` is the abstract specification of a STDIO bridge, as its
  client sees it. It has `stdin`, `closed`, `pos`, `answered` (the line and
  id of each reply) and `done`. `Read` reads the next line, and may answer it
  in the same step. `Answer` answers the line read last, if it is a request
  and is not answered yet. `Stop` stops reading. `Read` is weakly fair.
  Answering is not: both bridges leave some requests unanswered.
- Both bridges define the refinement mapping
  `Abstract == INSTANCE Dispatcher WITH answered <- AnsweredLines,
  done <- phase \in {"stopped", "exited"}`. `AnsweredLines` is `stdout`'s
  sequence of `line` and `id`.
  - For Bridge, `DispatcherSpec == Abstract!Spec` includes the fairness.
  - For the plugin, `PluginDispatcherSafety == Abstract!Safety` is the safety
    part only, because the plugin's fairness fails.
- `BridgeDataLemmas` holds lemmas about the data sets (every line is typed;
  object replies; `NoUpstreamNotReply`). `BridgeProofs`,
  `BridgeResponseProofs`, `BridgeRefinement` and `PluginProofs` hold the
  TLAPS proofs.

## Runs

| Run | cfg | Expect | What it shows |
|---|---|---|---|
| `bridge_core` | `MCBridge.cfg` | pass | `TypeOK`. `RepliesMatchRequests`: every response answers an earlier line that has an id, echoes that id, and responses come in line order, at most one per line. `ErrorsSurfaced`: a response is an error exactly when the server failed or no call was made; the code is -32603 for the first and -32601 for the second, and -32601 goes exactly to unrouted methods. `ResultsConformToMCP`: the pinned protocol version; capabilities are empty objects, never booleans; the tools list passes through; an image block is first exactly for a screenshot tool's image, with its mime type. `EveryLineRead` (liveness): every line written is eventually read unless the bridge stopped, also after the client closed stdout and responses started to be lost. |
| `bridge_refinement` | `MCBridge_Refinement.cfg` | pass | `DispatcherSpec`: the tools bridge implements the Dispatcher, fairness included. |
| `bridge_params_fault` | `MCBridge_ParamsFault.cfg` | violation of `RequestsAnswered` | A `tools/call` with params `null` or a list is never answered (`params.get` at line 134). |
| `bridge_null_id` | `MCBridge_NullId.cfg` | violation of `RequestsAnswered` | With only object params, a request with `"id": null` is still never answered: line 265 treats it as a notification. |
| `bridge_upstream_fault` | `MCBridge_UpstreamFault.cfg` | violation of `RequestsAnswered` | With only well-formed requests, a non-object server body, or `"tools": null`, makes the handler raise after a successful HTTP call. The request is lost. |
| `bridge_capabilities` | `MCBridge_Capabilities.cfg` | violation of `CapabilitiesMirrorUpstream` | `handle_initialize` always advertises `tools` and `logging`, where the spec mirrors the truthy upstream keys. |
| `bridge_hangup` | `MCBridge_Hangup.cfg` | violation of `CleanExitOnEOF` | The client closes the bridge's stdout, and then a request is answered. The `BrokenPipeError` from line 287 is swallowed, but the line stays buffered. At EOF, `run` returns and the interpreter's final flush fails, so the exit status is 120, where the spec promises 0. |
| `plugin_core` | `MCPluginBridge.cfg` | pass | `TypeOK`. `PluginDispatcherSafety`: the plugin bridge implements the safety part of the Dispatcher. `PluginErrorsClassified`: a response is an error exactly for an unknown method (-32601, no server call) or a failed `tools/list` (-32603); a failed `initialize` or `tools/call` comes back as a result. |
| `plugin_stall` | `MCPluginBridge_Stall.cfg` | violation of `EveryLineRead` | With no timeout on `urlopen`, a server that never answers stalls the loop forever. Lines written after that are never read. |
| `plugin_capabilities` | `MCPluginBridge_Capabilities.cfg` | violation of `CapabilitiesNeverBoolean` | `"capabilities": true` upstream is passed through as a boolean, which MCP does not allow. |
| `plugin_transport_error` | `MCPluginBridge_TransportError.cfg` | violation of `TransportErrorsSurfaced` | An `{"error": ...}` from `make_request` (refused connection, HTTP error) for `tools/call` or `initialize` goes back to the client as a successful result. |

The three `RequestsAnswered` runs use `MCSpecNoHangup` (in `MCBridge`):
every step of `Spec` except `Hangup`, so the client keeps reading stdout.
A response lost on a closed pipe would violate `RequestsAnswered` too, and
that cause is the `bridge_hangup` run's. The three runs also narrow the
input step by step. Each violation is therefore a separate cause, not the
previous one found again:
- `bridge_params_fault`: a `tools/call` with non-object params, dropped by
  `DropRaisingLine`.
- `bridge_null_id`: an `initialize` with `"id": null`, dropped by
  `HandleNotification`.
- `bridge_upstream_fault`: a `tools/list` whose server reply makes the
  handler raise (`HandlerFault`).

**Bounds.** `MaxLines = 2`, with every line kind, id kind and params kind,
and every reply shape at each HTTP call.
- The tools bridge has about 350,000 distinct states (with `Hangup` at every
  point).
- The plugin bridge has about 200,000 distinct states.

Two lines are enough for every question asked here:
- Ordering and pairing need two responses.
- A dropped request followed by another request needs two lines.
- A hangup between two answers needs two lines.
- The bridges keep no state between lines apart from `pos` and the stdout
  buffer.

Each mutant in PROJECT.json is killed under its run's cfg:
- an off-by-one in the read guard;
- a dropped id check before answering an unknown method;
- capabilities passed through from upstream;
- a missing `"error"` check in `tools/list`;
- the wrong JSON-RPC code;
- in the plugin, a missing notification check, and a wrong code for a
  `tools/list` error.

**Fairness.**
- The tools bridge has weak fairness on its steps, `WF_vars(BridgeStep)`. The
  code justifies it because the only places the thread waits are these:
  - `readline`, which returns once a line or EOF is there;
  - `urlopen(..., timeout=10)`, which returns or raises within its timeout.
  - A broken pipe does not block either: `print` raises at once.
- The plugin bridge has weak fairness only on its own steps, `LocalStep`. The
  server's answer, `ServerAnswers`, gets none, because its `urlopen` has no
  timeout.
- There is no fairness on the client or on `KeyboardInterrupt`.

## Proofs (TLAPS)

Every theorem holds for every value of the constants that satisfies the
`ASSUME`s: `Ids` disjoint from `absent` and `null`, `Tools` a set of
strings, `MaxLines` a natural number, and `Input` a set of lines.

- `BridgeProofs.TypeCorrect`: `Spec => []TypeOK`.
  - `TypeOK` alone is not inductive. `CompleteCall` reads `stdin[pos]` and
    needs it to be a routed request line.
  - The proof therefore uses `IInv == TypeOK /\ WaitingWellFormed`, where
    `WaitingWellFormed` says that while `phase = "waiting"` the pending line
    exists, is a request, has a routed method, and passed `params.get`.
  - Lemmas show that each handler operator returns a member of `Responses`.
    `PrintCases` splits a `print` into "delivered" and "buffered".
  - `NextIInv` has one step per action.
- `BridgeProofs.RepliesPaired`: `Spec => []RepliesMatchRequests`.
  - The proof uses `RInv == IInv /\ RepliesMatchRequests /\ WaitingUnanswered`.
  - `WaitingUnanswered` (no response yet for the line being waited on) is
    what keeps responses strictly increasing in `line` when `CompleteCall`
    appends.
- `BridgeResponseProofs.ErrorsSurfacedHolds` and `ResultsConformHolds`:
  `Spec => []ErrorsSurfaced` and `Spec => []ResultsConformToMCP`.
  - Both properties are about each response and the line it answers. The
    invariant is `EInv == RInv /\ ErrorsSurfaced /\ ResultsConformToMCP`.
  - `RInv` gives that every answered line is at most `pos`. Lines are only
    appended to `stdin`, so a step never changes the line an old response
    answers. Only the appended response has to be checked.
  - For that response, `HandlerResponseSurfaced` and
    `HandlerResponseConform` do the work, one case per routed method.
    `BridgeDataLemmas.NoUpstreamNotReply` shows that no server reply is the
    marker of a response made without one.
- `BridgeRefinement.RefinesDispatcher`: `Spec => Abstract!Safety`.
  - `InitRefines` maps the initial state.
  - `NextRefines`, under `RInv`, maps each step:
    - `Consume` and `CallServer` map to a `Read` with no answer.
    - `UnknownMethod` maps to a `Read` that answers, or, when the pipe is
      closed, to a `Read` that does not.
    - A delivered `CompleteCall` maps to an `Answer`. Its guard, that the
      line is not answered yet, is `WaitingUnanswered`.
    - `ReadEOF` and `Interrupt` map to `Stop`.
    - A lost response, `HandlerFault`, `Hangup` and `CheckServerConnection`
      map to stutters.
- `PluginProofs.PluginTypeCorrect` and `PluginRefinesDispatcher`: the same
  two results for the plugin bridge. Its invariant `IInv` adds
  `RepliesRead` and `WaitingUnanswered` to `TypeOK` and `WaitingWellFormed`.
- `PluginProofs.PluginErrorsClassifiedHolds`:
  `Spec => []PluginErrorsClassified`.
  - The invariant is `CInv == IInv /\ PluginErrorsClassified`. As for
    `ErrorsSurfaced`, only the response a step appends needs checking.
  - `HandlerResponseClassified` does that response, with one case for a
    `tools/list` whose server reply is an error, and one for every other
    routed reply. `UnknownMethod` gives the -32601 case.

Some record literals mix negative integers and strings. They are kept
behind named operators (`ErrorObject`, `MethodNotFoundError`,
`InternalError`), and facts about them are proved separately.

**Only model-checked:**
- `EveryLineRead`, and the fairness part of `DispatcherSpec`. Liveness,
  fairness and `ENABLED` are beyond TLAPS.
- The plugin's other properties are checked only by the violation runs
  (`EveryLineRead`, `CapabilitiesNeverBoolean`, `TransportErrorsSurfaced`).
  They do not hold, so there is nothing to prove.
- The properties of the other violation runs: `RequestsAnswered`,
  `CapabilitiesMirrorUpstream` and `CleanExitOnEOF`. They fail, so there is
  nothing to prove.

## Not modelled

- Logging to stderr, and the `serverInfo` pass-through. Neither has a
  control effect.
- The `CODION_MCP_PORT` parsing in `main`. A bad value raises before any
  state exists.
- Request payloads beyond the tool name.
- The interactive test client, `test_mcp_client.py`. It never talks to a
  bridge. It makes single blocking HTTP calls from a console dialogue,
  which has no state that a model would check.
- The closed-pipe path in the plugin bridge (line 161). It is the same
  `print` and `except` as in the tools bridge, where it is modelled. The
  plugin has no exit status to compare with.
- A client that abandons a request on its own timeout and retries with a
  new id. Both bridges answer strictly in read order, one line at a time,
  so a late answer to the abandoned id arrives before the answer to the
  retry. `RepliesMatchRequests` already lets the client pair the two by id.

## Plan

1. Done:
   - both bridges;
   - the Dispatcher and both refinements;
   - the closed-pipe client;
   - proofs of types, pairing, `ErrorsSurfaced`, `ResultsConformToMCP` and
     the refinements.
   - the plugin's error classification, with its proof.
2. Next: extend `PluginBridge` with the closed pipe, if a plugin exit status
   is ever specified.
