SPECIFICATION QueueSpec
CONSTANT
  Tasks = {t1, t2}
INVARIANT NoUnhandledRejection
CHECK_DEADLOCK FALSE
