CONSTANTS
    Requests = {r1, r2}
SPECIFICATION Spec
INVARIANTS ServedWhileOpen ClosedAtTheEnd AnsweredOnce BugsAreRaised
