\* Four threads, each a reader or a writer, under fair scheduling.
SPECIFICATION FairSpec
CONSTANTS
  a = a  b = b  c = c  d = d
  Threads = {a, b, c, d}
INVARIANTS Safety
PROPERTIES ImplementsReadersWriterLock WriterNotStarved
