----------------------------- MODULE ResourceView -----------------------------
(***************************************************************************)
(* The resource viewer (gui/resourceview/eventhooks.c): a line for every   *)
(* processor, interrupt, soft interrupt, trap and block device, in the     *)
(* colour of the state of the resource.                                    *)
(***************************************************************************)
EXTENDS State, TimeLines

NewResources == <<>>

(* The colours of the resources in a state of the trace. *)
cpu_line_color(ts, c) == IF ts.cpus[c].modes = <<>> THEN "CPU_UNKNOWN" ELSE Last1(ts.cpus[c].modes)
irq_line_color(ts, i) == IF ts.irqs[i] = <<>> THEN "IRQ_UNKNOWN" ELSE Last1(ts.irqs[i])
soft_irq_line_color(ts, i) ==
  IF ts.softIrqs[i].running # 0 THEN "SOFT_IRQ_BUSY"
  ELSE IF ts.softIrqs[i].pending # 0 THEN "SOFT_IRQ_PENDING" ELSE "SOFT_IRQ_IDLE"
trap_line_color(ts, i) == IF ts.traps[i] = 0 THEN "TRAP_IDLE" ELSE "TRAP_BUSY"
bdev_line_color(ts, d) ==
  IF BdevModes(ts, d) = <<>> THEN "BDEV_UNKNOWN" ELSE Last1(BdevModes(ts, d))

ResourceColor(ts, r) ==
  CASE r[1] = "CPU" -> cpu_line_color(ts, r[2])
    [] r[1] = "IRQ" -> irq_line_color(ts, r[2])
    [] r[1] = "SOFT_IRQ" -> soft_irq_line_color(ts, r[2])
    [] r[1] = "TRAP" -> trap_line_color(ts, r[2])
    [] r[1] = "BDEV" -> bdev_line_color(ts, r[2])

resourcelist_obtain(lines, r) == IF r \in DOMAIN lines THEN lines ELSE Put(lines, r, NewLine)

DrawResource(lines, ts, r, e) ==
  [resourcelist_obtain(lines, r) EXCEPT ![r] = DrawUpTo(@, e.time, ResourceColor(ts, r))]

MoveResource(lines, r, e) == [resourcelist_obtain(lines, r) EXCEPT ![r] = MoveTo(@, e.time)]

\* An exit is that of the interrupt that the processor entered last, if any.
DrawNested(lines, ts, type, stack, e) ==
  IF stack = <<>> THEN lines ELSE DrawResource(lines, ts, <<type, Last1(stack)>>, e)

before_execmode_hook_irq(lines, ts, e) ==
  CASE e.kind = "irq_entry" -> DrawResource(lines, ts, <<"IRQ", e.id>>, e)
    [] e.kind = "irq_exit" -> DrawNested(lines, ts, "IRQ", ts.cpus[e.cpu].irqs, e)
    [] OTHER -> lines

before_execmode_hook_soft_irq_unraised(lines, ts, e) ==
  CASE e.kind = "soft_irq_entry" -> DrawResource(lines, ts, <<"SOFT_IRQ", e.id>>, e)
    [] e.kind = "soft_irq_exit" -> DrawNested(lines, ts, "SOFT_IRQ", ts.cpus[e.cpu].softIrqs, e)
    [] OTHER -> lines
before_execmode_hook_soft_irq(lines, ts, e) ==
  CASE e.kind \in {"soft_irq_raise", "soft_irq_entry"} ->
         DrawResource(lines, ts, <<"SOFT_IRQ", e.id>>, e)
    [] e.kind = "soft_irq_exit" -> DrawNested(lines, ts, "SOFT_IRQ", ts.cpus[e.cpu].softIrqs, e)
    [] OTHER -> lines

before_execmode_hook_trap(lines, ts, e) ==
  CASE e.kind \in {"trap_entry", "page_fault_entry"} -> DrawResource(lines, ts, <<"TRAP", e.id>>, e)
    [] e.kind \in {"trap_exit", "page_fault_exit"} ->
         DrawNested(lines, ts, "TRAP", ts.cpus[e.cpu].traps, e)
    [] OTHER -> lines

\* The line of the processor is always the one of the processor of the event,
\* so that the cache of the viewer changes nothing.
before_execmode_hook_cpu(lines, ts, e) == DrawResource(lines, ts, <<"CPU", e.cpu>>, e)

before_execmode_hook_resources(lines, ts, e) ==
  LET irq == before_execmode_hook_irq(lines, ts, e)
      soft == before_execmode_hook_soft_irq(irq, ts, e)
      trap == before_execmode_hook_trap(soft, ts, e)
  IN  before_execmode_hook_cpu(trap, ts, e)

before_schedchange_hook_cpu(lines, ts, e) == DrawResource(lines, ts, <<"CPU", e.cpu>>, e)
after_schedchange_hook_cpu(lines, ts, e) == MoveResource(lines, <<"CPU", e.cpu>>, e)

before_bdev_event_hook(lines, ts, e) == DrawResource(lines, ts, <<"BDEV", e.dev>>, e)

draw_closure_resources(lines, ts, t) ==
  [r \in DOMAIN lines |-> Close(lines[r], t, ResourceColor(ts, r))]

ResourcesBefore(lines, ts, e) ==
  CASE e.kind \in {"trap_entry", "trap_exit", "page_fault_entry", "page_fault_exit", "irq_entry",
                   "irq_exit", "soft_irq_raise", "soft_irq_entry", "soft_irq_exit"} ->
         before_execmode_hook_resources(lines, ts, e)
    [] e.kind = "schedchange" -> before_schedchange_hook_cpu(lines, ts, e)
    [] e.kind \in {"bdev_request_issue", "bdev_request_complete"} ->
         before_bdev_event_hook(lines, ts, e)
    [] OTHER -> lines

ResourcesAfter(lines, ts, e) ==
  IF e.kind = "schedchange" THEN after_schedchange_hook_cpu(lines, ts, e) ELSE lines
=============================================================================
