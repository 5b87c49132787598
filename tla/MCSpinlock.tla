----------------------------- MODULE MCSpinlock -----------------------------
(* Two CPUs and the nesting of sys_sleep() and the timer interrupt:        *)
(* ptable.lock is acquired by a holder of tickslock, never the reverse.    *)
EXTENDS Spinlock

CONSTANTS cpu0, cpu1, tickslock, ptable

MCOrder == {<<tickslock, ptable>>}
=============================================================================
