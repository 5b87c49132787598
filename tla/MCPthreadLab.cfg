SPECIFICATION FairSpec
CONSTANTS
    Programs = {"writer_pref", "reader_pref", "sol_writer_pref", "sol_reader_pref", "stack", "ring", "toggle", "batch"}
    Readers = {r1, r2, r3}
    Writers = {w1, w2}
    Masters = {m1, m2}
    Workers = {k1, k2}
    NoOne = NoOne
    total_items = 4
    max_buf_size = 2
    NUM_THREADS = 3
    NUM_ITER = 2
    BATCH = 3
CHECK_DEADLOCK FALSE
INVARIANTS
    LabSafe
PROPERTIES
    WriterPreference
    LabEnds
