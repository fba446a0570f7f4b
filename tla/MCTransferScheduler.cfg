CONSTANTS
  Part = {"operation", "sync"}
  Op = {o1}
  File = {f1, f2, f3}
  Concurrency = 2
  MaxAttempts = 2
  Top = Top  folder = folder  nested = nested  child = child
  Paths = {folder, nested, child}
  ParentOf <- Nested
  Ancestors <- Nesting
  Times = {0, 1, 2}
  Sizes = {1, 2}
  Later = 3
SPECIFICATION MCSpec
INVARIANTS TypeOK ConcurrencyBound NoTaskStranded  
PROPERTIES ImplementsBatch StartedSettles 
CHECK_DEADLOCK FALSE
