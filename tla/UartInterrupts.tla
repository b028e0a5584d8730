--------------------------- MODULE UartInterrupts ---------------------------
(***************************************************************************)
(* Interrupts from end to end: UARTs that raise and drop their line, the   *)
(* ports whose signals reach the controller's partition later, the         *)
(* controller, and the device the harts claim from: the PLIC, or the plain *)
(* controller device.  One UART drives each line, and its source is the    *)
(* line itself.  The harts' software is external: a handler claims, reads  *)
(* the UART until it sees it empty, and completes.                         *)
(***************************************************************************)
EXTENDS InterruptController, Sequences

CONSTANTS
    Priorities,    \* the priorities and thresholds software writes
    SourceCounts,  \* source_count of the PLIC, one of these
    MaxRx,         \* bound: bytes waiting in a UART
    MaxSignals     \* bound: signals of one line under way

ASSUME PriorityAssumption == Priorities \subseteq Nat

VARIABLES
    claimDevice,  \* "Plic" or "Plain"
    sourceCount,  \* PlicMmioDevice::source_count
    rx,           \* line -> number of bytes in rx_pending of its UART
    signals,      \* line -> signals under way, oldest first
    controller,   \* the InterruptController
    enabled,      \* PlicMmioState: target -> enabled lines
    threshold,    \* PlicMmioState: target -> threshold
    handler       \* target -> what its software is doing

uartVars == <<claimDevice, sourceCount, rx, signals, controller, enabled, threshold, handler>>

plicVars == <<claimDevice, sourceCount, enabled, threshold>>

UartInit ==
    /\ claimDevice \in {"Plic", "Plain"}
    /\ sourceCount \in SourceCounts
    /\ rx = [l \in InterruptLines |-> 0]
    /\ signals = [l \in InterruptLines |-> <<>>]
    /\ controller = NewController
    /\ enabled = [t \in InterruptTargets |-> {}]
    /\ threshold = [t \in InterruptTargets |-> 0]
    /\ handler = [t \in InterruptTargets |-> "Idle"]

-----------------------------------------------------------------------------
\* InterruptLinePort::emit: the signal arrives signal_latency later, in order
Emit(line, kind) == signals' = [signals EXCEPT ![line] = Append(@, kind)]

ShouldAssert(line) == rx[line] = 0

InjectRx(line) ==
    /\ rx[line] < MaxRx
    /\ Len(signals[line]) < MaxSignals
    /\ rx' = [rx EXCEPT ![line] = @ + 1]
    /\ IF ShouldAssert(line) THEN Emit(line, "Assert") ELSE UNCHANGED signals
    /\ UNCHANGED <<plicVars, controller, handler>>

\* mutant: the line is dropped with every byte read
MutantShouldDeassert(line) == TRUE

ShouldDeassert(line) == rx[line] = 1

ReadData(line) ==
    /\ rx[line] > 0
    /\ Len(signals[line]) < MaxSignals
    /\ rx' = [rx EXCEPT ![line] = @ - 1]
    /\ IF ShouldDeassert(line) THEN Emit(line, "Deassert") ELSE UNCHANGED signals
    /\ UNCHANGED <<plicVars, controller, handler>>

\* the scheduled delivery; an error is recorded by the port and changes nothing
Deliver(line) ==
    /\ signals[line] # <<>>
    /\ controller' = ApplyDelivery(controller, line, line, Head(signals[line]))
    /\ signals' = [signals EXCEPT ![line] = Tail(@)]
    /\ UNCHANGED <<plicVars, rx, handler>>

-----------------------------------------------------------------------------
(***************************************************************************)
(* The registers.  With the plain device every pending line of the target  *)
(* can be claimed; the PLIC filters by source, enable and threshold.       *)
(***************************************************************************)
SourceInRange(line) == line <= sourceCount

Accepts(target, line) ==
    claimDevice = "Plic" =>
        /\ SourceInRange(line)
        /\ line \in enabled[target]
        /\ controller.priority[line] > threshold[target]

AcceptedLines(target) == {l \in InterruptLines : Accepts(target, l)}

\* respond_priority, respond_enable and respond_threshold: writes
WritePriority(line, priority) ==
    /\ claimDevice = "Plic" => SourceInRange(line)
    /\ controller' = SetPriority(controller, line, priority)
    /\ UNCHANGED <<plicVars, rx, signals, handler>>

WriteEnable(target, value) ==
    /\ claimDevice = "Plic"
    /\ enabled' = [enabled EXCEPT ![target] = {l \in value : SourceInRange(l)}]
    /\ UNCHANGED <<claimDevice, sourceCount, threshold, rx, signals, controller, handler>>

WriteThreshold(target, priority) ==
    /\ claimDevice = "Plic"
    /\ threshold' = [threshold EXCEPT ![target] = priority]
    /\ UNCHANGED <<claimDevice, sourceCount, enabled, rx, signals, controller, handler>>

\* respond_claim_complete (PLIC), the claim and complete register (plain)
ReadClaim(target) ==
    LET line == ClaimedLine(controller, target, AcceptedLines(target))
    IN  /\ controller' = ClaimFiltered(controller, target, AcceptedLines(target))
        /\ handler' = [handler EXCEPT ![target] = IF line = NoInterrupt THEN "Idle" ELSE "Draining"]
        /\ UNCHANGED <<plicVars, rx, signals>>

WriteComplete(target, line) ==
    /\ claimDevice = "Plic" => SourceInRange(line)
    /\ controller' = Complete(controller, target, line)
    /\ handler' = [handler EXCEPT ![target] = "Idle"]
    /\ UNCHANGED <<plicVars, rx, signals>>

\* the handler of the target: it completes once it has seen the UART of its line empty
SeesEmpty(target) ==
    /\ handler[target] = "Draining"
    /\ rx[controller.claimed[target]] = 0
    /\ handler' = [handler EXCEPT ![target] = "Drained"]
    /\ UNCHANGED <<plicVars, rx, signals, controller>>

Finishes(target) ==
    /\ handler[target] = "Drained"
    /\ WriteComplete(target, controller.claimed[target])

\* mutant: a line at the threshold is shown
MutantOutput(target) ==
    CASE claimDevice = "Plain" -> PeekClaimable(controller, target)
      [] claimDevice = "Plic" /\ controller.claimed[target] # NoInterrupt -> NoInterrupt
      [] claimDevice = "Plic" /\ controller.claimed[target] = NoInterrupt ->
            First(controller, {l \in InterruptLines :
                                  /\ Pending(controller, l)
                                  /\ RouteOf[l] = target
                                  /\ SourceInRange(l)
                                  /\ l \in enabled[target]
                                  /\ controller.priority[l] >= threshold[target]})

\* context_output_line, and the pending register of the plain device
Output(target) ==
    CASE claimDevice = "Plain" -> PeekClaimable(controller, target)
      [] claimDevice = "Plic" /\ controller.claimed[target] # NoInterrupt -> NoInterrupt
      [] claimDevice = "Plic" /\ controller.claimed[target] = NoInterrupt ->
            First(controller, {l \in InterruptLines :
                                  /\ Pending(controller, l)
                                  /\ RouteOf[l] = target
                                  /\ SourceInRange(l)
                                  /\ l \in enabled[target]
                                  /\ controller.priority[l] > threshold[target]})

UartNext ==
    \/ \E line \in InterruptLines :
          \/ InjectRx(line)
          \/ ReadData(line)
          \/ Deliver(line)
          \/ \E priority \in Priorities : WritePriority(line, priority)
    \/ \E target \in InterruptTargets :
          \/ \E value \in SUBSET InterruptLines : WriteEnable(target, value)
          \/ \E priority \in Priorities : WriteThreshold(target, priority)
          \/ ReadClaim(target)
          \/ SeesEmpty(target)
          \/ Finishes(target)

UartSpec == UartInit /\ [][UartNext]_uartVars

-----------------------------------------------------------------------------
Announced(line) == signals[line] # <<>> /\ signals[line][Len(signals[line])] = "Assert"

Handled(line) ==
    /\ controller.claimed[RouteOf[line]] = line
    /\ handler[RouteOf[line]] = "Draining"

\* No received byte is forgotten: while a UART holds bytes its interrupt is on its way to the
\* controller, pending there, or being handled by software that has not yet seen the UART
\* empty.  The signals take time, a claim removes the pending line before the UART drops it,
\* and a new byte may raise the line while the old interrupt is still claimed.  Nor does the
\* controller make interrupts up: an assert never finds its line pending (apply_delivery would
\* drop it as AlreadyPending), and a line stays pending for an empty UART only while the
\* deassert is under way.
LineFollowsUart ==
    \A line \in InterruptLines :
        /\ rx[line] > 0 => Announced(line) \/ Pending(controller, line) \/ Handled(line)
        /\ signals[line] # <<>> /\ Head(signals[line]) = "Assert" => ~Pending(controller, line)
        /\ Pending(controller, line) =>
              rx[line] > 0 \/ \E i \in DOMAIN signals[line] : signals[line][i] = "Deassert"

\* The interrupt a hart is shown is the one it gets: when nothing is claimed, the context's
\* output (context_output_line, peek_claimable) names exactly the line a claim would take
\* (claim_filtered), and a PLIC context with a claim shows none.
OutputIsNextClaim ==
    \A target \in InterruptTargets :
        IF controller.claimed[target] = NoInterrupt
          THEN Output(target) = ClaimedLine(controller, target, AcceptedLines(target))
          ELSE claimDevice = "Plic" => Output(target) = NoInterrupt

\* A controller can be restored from any snapshot it takes of itself.
SnapshotRestores == ValidSnapshot(controller)
=============================================================================
